---------------------------- MODULE Spec2Model ----------------------------
(***************************************************************************)
(* Model of the webssh-rs gateway (src/ipam/webssh-rs/src).                *)
(*                                                                         *)
(* Spec      the session registry (session.rs) behind its tokio Mutex and  *)
(*           the HTTP handlers of main.rs that use it: connect, terminate, *)
(*           single status, session list, websocket upgrade, the bridge's  *)
(*           cleanup and the reaper task.                                  *)
(* SpecOpen  SSHSession::new (ssh/session.rs), step by step, against an    *)
(*           SSH endpoint whose answers are chosen nondeterministically.   *)
(*                                                                         *)
(* Strings are sequences of pieces, so that str::trim and str::contains    *)
(* are computed, not assumed.  Uuid::new_v4() is modelled as a fresh       *)
(* piece per call (uniqueness of v4 uuids is assumed).                     *)
(***************************************************************************)
EXTENDS Integers, Sequences, FiniteSets, TLC

VARIABLES
    now,                      \* Instant::now(), in seconds since start
    ticks,                    \* how many times the clock has advanced
    issued,                   \* session ids returned by add_session, in order
    sessions,                 \* SessionRegistry.sessions
    portal_user_sessions,     \* SessionRegistry.portal_user_sessions
    device_sessions,          \* SessionRegistry.device_sessions
    composite_key_sessions,   \* SessionRegistry.composite_key_sessions
    shutdown_flag,            \* the Arc<AtomicBool> of the n-th SSH session
    closed,                   \* close() has returned on the registry's handle n
    lock,                     \* holder of AppState.session_registry's Mutex
    pending,                  \* locals of the handler that holds the lock
    bridges,                  \* handle_socket instances (upgraded websockets)
    resp,                     \* the last response / log record of a handler
    removeRets,               \* per session, the values remove_session returned
    terminated                \* ids whose terminate request answered success

VARIABLES
    o_in,                     \* SSHSession::new: its arguments
    o_pc,                     \* SSHSession::new: position in the function
    retry_count,              \* SSHSession::new: handshake retry counter
    auth_retry_count,         \* SSHSession::new: password retry counter
    o_log,                    \* SSHSession::new: calls made on the endpoint
    o_authed,                 \* SSHSession::new: a userauth call returned Ok
    o_result,                 \* SSHSession::new: what it returned
    o_message                 \* SSHSession::new: the text of an Authentication error

VARIABLES
    b_pc,                     \* handle_socket: position of the bridge
    flags,                    \* the Arc<AtomicBool> cells: cell -> value
    io,                       \* start_io on the clone: running, done, err
    rx_task,                  \* WebSocketHandler::handle: receiver task
    tx_task,                  \* WebSocketHandler::handle: sender task
    client,                   \* the client's end of the websocket
    ssh_input,                \* queue ssh_input_tx -> ssh_input_rx
    resize,                   \* queue resize_tx -> resize_rx
    ssh_output,               \* queue ssh_output_tx -> ssh_output_rx
    ws_msg,                   \* queue ws_msg_tx -> ws_msg_rx
    recvd,                    \* frames the receiver task has handled
    written,                  \* chunks written to the SSH channel
    resized,                  \* resize_pty calls and what they request
    read_log,                 \* chunks read from the SSH channel
    sent,                     \* frames sent to the client
    close_count,              \* calls of close() on the registry's handle
    last_close,               \* what the last close() did and returned
    saw                       \* handle(): saw_fullscreen_app, saw_top_command

VARIABLES
    p_pc,                     \* protocol.rs: position of a message on its way
    p_message,                \* protocol.rs: the BinaryMessage to send
    p_binary,                 \* protocol.rs: the bytes on the wire
    p_decoded                 \* protocol.rs: the Result of from_binary

regVars  == <<sessions, portal_user_sessions, device_sessions,
              composite_key_sessions>>
sshVars  == <<shutdown_flag, closed>>
srvVars  == <<now, ticks, issued, sessions, portal_user_sessions,
              device_sessions, composite_key_sessions, shutdown_flag, closed,
              lock, pending, bridges, resp, removeRets, terminated>>
openVars == <<o_in, o_pc, retry_count, auth_retry_count, o_log, o_authed,
              o_result, o_message>>
brVars   == <<b_pc, flags, io, rx_task, tx_task, client, ssh_input, resize,
              ssh_output, ws_msg, recvd, written, resized, read_log, sent,
              close_count, last_close, saw>>
protoVars == <<p_pc, p_message, p_binary, p_decoded>>
vars     == <<srvVars, openVars, brVars, protoVars>>

-----------------------------------------------------------------------------
(* Bounds of the model *)

MaxSessions == 1      \* add_session calls explored
MaxTicks    == 1      \* clock advances explored
MaxBridges  == 1      \* websocket upgrades explored

(* Program constants *)

ReaperMaxIdle == 3600     \* main.rs:104  Duration::from_secs(3600)

-----------------------------------------------------------------------------
(* Inputs *)

PortalUsers == {"u1"}
Usernames   == {"root"}
Uuids       == <<"uuid-1", "uuid-2", "uuid-3", "uuid-4">>
Anonymous   == <<"anonymous-a1", "anonymous-a2", "anonymous-a3", "anonymous-a4">>
ClockSteps  == {1, ReaperMaxIdle}
MaxIdles    == {0, ReaperMaxIdle}
Whitespace  == {" ", "\t"}
Pads        == {<<>>, <<"\t", " ">>}

-----------------------------------------------------------------------------
(* Maps (HashMap) as functions with a finite domain *)

EmptyMap == [x \in {} |-> {}]

MapInsert(m, k, v) ==
    [x \in (DOMAIN m) \cup {k} |-> IF x = k THEN v ELSE m[x]]

MapRemove(m, k) == [x \in (DOMAIN m) \ {k} |-> m[x]]

(* an insert that starts the bucket of k afresh *)
BucketInsert_replaces(m, k, id) == MapInsert(m, k, {id})

(* HashMap<String, HashSet<String>>::entry(k).or_default().insert(id) *)
BucketInsert(m, k, id) ==
    MapInsert(m, k, (IF k \in DOMAIN m THEN m[k] ELSE {}) \cup {id})

(* a lookup key taken from the URL as it came *)
Trim_nothing(s) == s

(* str::trim *)
RECURSIVE TrimStart(_)
TrimStart(s) ==
    IF s # <<>> /\ Head(s) \in Whitespace THEN TrimStart(Tail(s)) ELSE s

RECURSIVE TrimEnd(_)
TrimEnd(s) ==
    IF s # <<>> /\ s[Len(s)] \in Whitespace
    THEN TrimEnd(SubSeq(s, 1, Len(s) - 1))
    ELSE s

Trim(s) == TrimEnd(TrimStart(s))

(* format!("portal-{}-device-{}-ssh-{}-{}", ...) *)
FormatSessionId(portal_user_id, device_id, ssh_username, uuid) ==
    <<"portal-", portal_user_id, "-device-", device_id, "-ssh-",
      ssh_username, "-", uuid>>

(* an id of the right shape that add_session never returns *)
UnknownId == FormatSessionId("u1", "d1", "root", "uuid-0")

(* The n of the session whose id is id (0 when add_session never made it) *)
IndexOf(id) ==
    IF \E n \in 1..Len(issued) : issued[n] = id
    THEN CHOOSE n \in 1..Len(issued) : issued[n] = id
    ELSE 0

(* Paths a client may put in the URL: a known or unknown id, padded *)
RawPaths ==
    {l \o id \o r : l \in Pads, r \in Pads,
                    id \in {issued[n] : n \in 1..Len(issued)} \cup {UnknownId}}

-----------------------------------------------------------------------------
(* SessionRegistry (session.rs) *)

None == <<>>

(* Option<String>::None of a request's portal_user_id *)
NoUser == "<none>"

SessionInfo(portal_user_id, device_id, ssh_username, ssh_session) ==
    [portal_user_id |-> portal_user_id,
     device_id      |-> device_id,
     ssh_username   |-> ssh_username,
     ssh_session    |-> ssh_session,
     last_activity  |-> now]

(* add_session: the id it generates, and the four inserts *)
add_session(portal_user_id, device_id, ssh_username, ssh_session, uuid) ==
    LET session_id == FormatSessionId(portal_user_id, device_id,
                                      ssh_username, uuid)
    IN  /\ sessions' = MapInsert(sessions, session_id,
                          SessionInfo(portal_user_id, device_id,
                                      ssh_username, ssh_session))
        /\ portal_user_sessions' =
               BucketInsert(portal_user_sessions, portal_user_id, session_id)
        /\ device_sessions' =
               BucketInsert(device_sessions, device_id, session_id)
        /\ composite_key_sessions' =
               MapInsert(composite_key_sessions,
                         <<portal_user_id, device_id, ssh_username>>,
                         session_id)

(* a lookup that leaves last_activity as it was *)
get_session_no_stamp(s, session_id) == s

(* get_session: the sessions map after the call (a hit stamps last_activity) *)
get_session(s, session_id) ==
    IF session_id \in DOMAIN s
    THEN [s EXCEPT ![session_id].last_activity = now]
    ELSE s

(* get_session called for each id of a list *)
get_sessions(s, ids) ==
    [id \in DOMAIN s |->
        IF id \in ids THEN [s[id] EXCEPT !.last_activity = now] ELSE s[id]]

get_all_sessions == DOMAIN sessions

get_portal_user_sessions(portal_user_id) ==
    IF portal_user_id \in DOMAIN portal_user_sessions
    THEN portal_user_sessions[portal_user_id]
    ELSE {}

get_device_sessions(device_id) ==
    IF device_id \in DOMAIN device_sessions
    THEN device_sessions[device_id]
    ELSE {}

get_all_portal_user_ids == DOMAIN portal_user_sessions

(* a count of the sessions ever added *)
total_sessions_ever == Len(issued)

total_sessions == Cardinality(DOMAIN sessions)

total_portal_users == Cardinality(DOMAIN portal_user_sessions)

total_devices == Cardinality(DOMAIN device_sessions)

(* a removal that finds the entry and leaves it in the map *)
sessions_remove_keeps(s, session_id) == s

(* remove_session, line 159: self.sessions.remove(session_id) *)
sessions_remove(s, session_id) == MapRemove(s, session_id)

(* a bucket removal without the eviction of the emptied bucket *)
BucketRemove_keeps_empty(m, k, id) ==
    IF k \in DOMAIN m THEN [m EXCEPT ![k] = m[k] \ {id}] ELSE m

(* remove_session, lines 168-173 and 176-181: take the id out of the bucket
   of key k and evict the bucket when it is left empty *)
BucketRemove(m, k, id) ==
    IF k \in DOMAIN m
    THEN IF m[k] \ {id} = {}
         THEN MapRemove(m, k)
         ELSE [m EXCEPT ![k] = m[k] \ {id}]
    ELSE m

(* remove_session, lines 184-189 *)
CompositeRemove(m, info) ==
    MapRemove(m, <<info.portal_user_id, info.device_id, info.ssh_username>>)

(* cleanup_stale_sessions, lines 201-206: Instant::duration_since saturates
   at zero *)
DurationSince(later, earlier) == IF later >= earlier THEN later - earlier ELSE 0

(* a filter that also takes the sessions idle for exactly max_idle_time *)
stale_session_ids_inclusive(max_idle_time) ==
    {id \in DOMAIN sessions :
        DurationSince(now, sessions[id].last_activity) >= max_idle_time}

(* a filter that spares the sessions with a bridge in use *)
stale_session_ids_sparing_bridged(max_idle_time) ==
    {id \in DOMAIN sessions :
        /\ DurationSince(now, sessions[id].last_activity) > max_idle_time
        /\ ~\E b \in 1..Len(bridges) :
               bridges[b].session_id = id /\ bridges[b].state = "bridging"}

stale_session_ids(max_idle_time) ==
    {id \in DOMAIN sessions :
        DurationSince(now, sessions[id].last_activity) > max_idle_time}

(* the orders in which a HashMap may iterate over the ids of S *)
Orders(S) ==
    {q \in [1..Cardinality(S) -> S] :
        \A i, j \in 1..Cardinality(S) : i # j => q[i] # q[j]}

-----------------------------------------------------------------------------
(* The registry's Mutex (main.rs, AppState) and the handlers' locals *)

NoPending == [todo |-> <<>>, cur |-> <<>>, count |-> 0, ret |-> FALSE,
              arg |-> <<>>, before |-> <<>>]

(* a lock that never makes its caller wait *)
LockAvailable_never_waits == TRUE

(* a lock that the upgrade handler's guard does not hold back *)
LockAvailable_during_upgrade == lock \in {"free", "ws"}

(* state.session_registry.lock().await returns *)
LockAvailable == lock = "free"

Removers == {"terminate", "bridge", "reaper"}

NoResp == [op |-> "none"]

(* A handler's response (or log record) is written out before the next step
   is taken: resp holds the one in flight.  Writing a response changes no
   state, so this orders nothing the registry can see. *)
NoOutput == resp = NoResp

-----------------------------------------------------------------------------
(* Error messages of a failed SSHSession::new, as pieces *)

OpenErrors ==
    { <<"Authentication", " failed">>,
      <<"Connection", " refused">>,
      <<"failed to ", "connect">>,
      <<"Handshake failed">>,
      <<"Authentication", " failed: ", "Connection", " reset">> }

Contains(msg, piece) == \E i \in 1..Len(msg) : msg[i] = piece

(* a mapping that looks for the connection words first *)
ErrorCode_connection_first(msg) ==
    IF Contains(msg, "Connection") \/ Contains(msg, "connect")
    THEN "CONNECTION_FAILED"
    ELSE IF Contains(msg, "Authentication") THEN "AUTH_FAILED"
         ELSE "UNKNOWN_ERROR"

(* connect_handler, lines 231-237 *)
ErrorCode(msg) ==
    IF Contains(msg, "Authentication") THEN "AUTH_FAILED"
    ELSE IF Contains(msg, "Connection") \/ Contains(msg, "connect")
         THEN "CONNECTION_FAILED"
         ELSE "UNKNOWN_ERROR"


-----------------------------------------------------------------------------
(* The clock *)

Tick ==
    /\ NoOutput
    /\ ticks < MaxTicks
    /\ \E d \in ClockSteps : now' = now + d
    /\ ticks' = ticks + 1
    /\ UNCHANGED <<issued, regVars, sshVars, lock, pending, bridges, resp,
                   removeRets>>
    /\ UNCHANGED <<terminated, openVars, brVars, protoVars>>

-----------------------------------------------------------------------------
(* connect_handler (main.rs 175-248).  SSHSession::new runs before the lock
   is taken; its outcome is the endpoint's.  portal_user_id None becomes
   "anonymous-<uuid>". *)

(* The connect requests the clients send: a named portal user on either    *)
(* device, and a request without portal_user_id on the first device.       *)
ConnectRequests == {<<"u1", "d1">>, <<"u1", "d2">>, <<NoUser, "d1">>}

(* an Open whose result is taken for a session whatever it is *)
OpenSucceeded_unchecked(open) == TRUE

(* connect_handler, lines 189-198: match SSHSession::new(..) { Ok(session) *)
OpenSucceeded(open) == open.ok

OpenOutcomes ==
    {[ok |-> TRUE, msg |-> <<>>]} \cup {[ok |-> FALSE, msg |-> e] : e \in OpenErrors}

(* connect_handler for one request, while fewer than limit sessions have
   been added *)
ConnectWithin(limit) ==
    \E request \in ConnectRequests, username \in Usernames,
       open \in OpenOutcomes :
         LET n  == Len(issued) + 1
             req == request[1]
             device_id == request[2]
             portal_user_id == IF req = NoUser THEN Anonymous[n] ELSE req
             session_id == FormatSessionId(portal_user_id, device_id,
                                           username, Uuids[n])
         IN  IF OpenSucceeded(open)
             THEN /\ Len(issued) < limit
                  /\ LockAvailable
                  /\ add_session(portal_user_id, device_id, username, n,
                                 Uuids[n])
                  /\ issued' = Append(issued, session_id)
                  /\ shutdown_flag' = Append(shutdown_flag, FALSE)
                  /\ closed' = Append(closed, FALSE)
                  /\ removeRets' = Append(removeRets, <<>>)
                  /\ resp' = [op |-> "connect", success |-> TRUE,
                              session_id |-> session_id, error_code |-> "",
                              open |-> open.ok]
             ELSE /\ resp' = [op |-> "connect", success |-> FALSE,
                              session_id |-> None,
                              error_code |-> ErrorCode(open.msg),
                              message |-> <<"Failed to connect: ">> \o open.msg,
                              open |-> open.ok]
                  /\ UNCHANGED <<issued, regVars, sshVars, removeRets>>

Connect ==
    /\ NoOutput
    /\ ConnectWithin(MaxSessions)
    /\ UNCHANGED <<now, ticks, lock, pending, bridges, terminated>>
    /\ UNCHANGED <<openVars, brVars, protoVars>>

-----------------------------------------------------------------------------
(* session_status_single_handler (main.rs 552-591) *)

SessionStatusSingle ==
    /\ NoOutput
    /\ LockAvailable
    /\ \E path \in RawPaths :
         LET clean_session_id == Trim(path)
             session_exists == clean_session_id \in DOMAIN sessions
         IN  /\ sessions' = get_session(sessions, clean_session_id)
             /\ resp' = [op |-> "status", session_id |-> clean_session_id,
                         exists |-> session_exists, ready |-> session_exists]
    /\ UNCHANGED <<now, ticks, issued, portal_user_sessions, device_sessions,
                   composite_key_sessions, sshVars, lock, pending, bridges,
                   removeRets>>
    /\ UNCHANGED <<terminated, openVars, brVars, protoVars>>

(* session_status_handler (main.rs 458-511) *)
SessionStatus ==
    /\ NoOutput
    /\ LockAvailable
    /\ \E req \in PortalUsers \cup {NoUser} :
         LET session_ids ==
                 IF req # NoUser
                 THEN get_portal_user_sessions(req)
                 ELSE UNION {get_portal_user_sessions(u) :
                                u \in get_all_portal_user_ids}
             found == session_ids \cap DOMAIN sessions
         IN  /\ sessions' = get_sessions(sessions, found)
             /\ resp' = [op |-> "sessions",
                         active_sessions |-> Cardinality(found),
                         sessions |-> found]
    /\ UNCHANGED <<now, ticks, issued, portal_user_sessions, device_sessions,
                   composite_key_sessions, sshVars, lock, pending, bridges,
                   removeRets>>
    /\ UNCHANGED <<terminated, openVars, brVars, protoVars>>

-----------------------------------------------------------------------------
(* remove_session (session.rs 158-197), in the two steps its caller, holding
   the lock, goes through: the primary removal with the store of the shutdown
   flag that opens close(), then the rest of close() (network I/O whose
   errors are logged) and the removal from the three indices. *)

(* remove_session, lines 159-162: the primary removal and the store of the
   shutdown flag in close(), or the return of false for an unknown id *)
remove_session_take ==
    /\ lock \in Removers
    /\ pending.todo # <<>>
    /\ pending.cur = <<>>
    /\ LET session_id == Head(pending.todo)
       IN  IF session_id \in DOMAIN sessions
           THEN /\ sessions' = sessions_remove(sessions, session_id)
                /\ shutdown_flag' =
                       [shutdown_flag EXCEPT
                           ![sessions[session_id].ssh_session] = TRUE]
                /\ pending' = [pending EXCEPT
                                  !.cur = <<sessions[session_id]>>]
                /\ UNCHANGED removeRets
           ELSE /\ pending' = [pending EXCEPT !.todo = Tail(pending.todo),
                                              !.ret = FALSE]
                /\ removeRets' =
                       IF IndexOf(session_id) = 0 THEN removeRets
                       ELSE [removeRets EXCEPT ![IndexOf(session_id)] =
                                                  Append(@, FALSE)]
                /\ UNCHANGED <<sessions, shutdown_flag>>
    /\ UNCHANGED <<now, ticks, issued, portal_user_sessions, device_sessions,
                   composite_key_sessions, closed, lock, bridges, resp>>

RemoveTake ==
    /\ NoOutput
    /\ remove_session_take
    /\ UNCHANGED <<terminated, openVars, brVars, protoVars>>

RemoveFinish ==
    /\ NoOutput
    /\ lock \in Removers
    /\ pending.cur # <<>>
    /\ LET session_id == Head(pending.todo)
           session_info == pending.cur[1]
       IN  /\ closed' = [closed EXCEPT ![session_info.ssh_session] = TRUE]
           /\ portal_user_sessions' =
                  BucketRemove(portal_user_sessions,
                               session_info.portal_user_id, session_id)
           /\ device_sessions' =
                  BucketRemove(device_sessions, session_info.device_id,
                               session_id)
           /\ composite_key_sessions' =
                  CompositeRemove(composite_key_sessions, session_info)
           /\ removeRets' = [removeRets EXCEPT ![session_info.ssh_session] =
                                                  Append(@, TRUE)]
           /\ pending' = [pending EXCEPT !.todo = Tail(pending.todo),
                                         !.cur = <<>>, !.ret = TRUE]
    /\ UNCHANGED <<now, ticks, issued, sessions, shutdown_flag, lock, bridges,
                   resp>>
    /\ UNCHANGED <<terminated, openVars, brVars, protoVars>>


-----------------------------------------------------------------------------
(* session_terminate_handler (main.rs 514-549) *)

(* a terminate that takes every id for a session of the registry *)
terminate_found_always(s, session_id) == TRUE

(* line 528: if let Some(session) = registry.get_session(&clean_session_id) *)
terminate_found(s, session_id) == session_id \in DOMAIN s

SessionTerminate ==
    /\ NoOutput
    /\ LockAvailable
    /\ \E path \in RawPaths :
         LET clean_session_id == Trim(path)
         IN  IF terminate_found(sessions, clean_session_id)
             THEN /\ sessions' = get_session(sessions, clean_session_id)
                  /\ lock' = "terminate"
                  /\ pending' = [NoPending EXCEPT
                                    !.todo = <<clean_session_id>>,
                                    !.arg = clean_session_id]
                  /\ UNCHANGED resp
             ELSE /\ resp' = [op |-> "terminate",
                              session_id |-> clean_session_id,
                              success |-> FALSE]
                  /\ UNCHANGED <<sessions, lock, pending>>
    /\ UNCHANGED <<now, ticks, issued, portal_user_sessions, device_sessions,
                   composite_key_sessions, sshVars, bridges, removeRets>>
    /\ UNCHANGED <<terminated, openVars, brVars, protoVars>>

TerminateReturn ==
    /\ NoOutput
    /\ lock = "terminate"
    /\ pending.todo = <<>>
    /\ resp' = [op |-> "terminate", session_id |-> pending.arg,
                success |-> TRUE]
    /\ terminated' = terminated \cup {pending.arg}
    /\ lock' = "free"
    /\ pending' = NoPending
    /\ UNCHANGED <<now, ticks, issued, regVars, sshVars, bridges, removeRets>>
    /\ UNCHANGED <<openVars, brVars, protoVars>>

-----------------------------------------------------------------------------
(* ws_handler (main.rs 314-364).  On a hit the handler keeps the lock while
   SSHSession::clone dials the endpoint again; clone panics when that fails
   (the guard is released by the unwinding). *)

(* ws_handler up to the lookup, with at most limit upgrades *)
WsHandlerWithin(limit) ==
    /\ LockAvailable
    /\ \E path \in RawPaths :
         LET clean_session_id == Trim(path)
         IN  IF clean_session_id \in DOMAIN sessions
             THEN /\ Len(bridges) < limit
                  /\ sessions' = get_session(sessions, clean_session_id)
                  /\ lock' = "ws"
                  /\ pending' = [NoPending EXCEPT !.arg = clean_session_id,
                                                  !.before = path]
                  /\ UNCHANGED resp
             ELSE /\ resp' = [op |-> "ws", path |-> path,
                              session_id |-> clean_session_id,
                              status |-> 404, error |-> "session_not_found",
                              available_sessions |->
                                  Cardinality(get_all_sessions)]
                  /\ UNCHANGED <<sessions, lock, pending>>
    /\ UNCHANGED <<now, ticks, issued, portal_user_sessions, device_sessions,
                   composite_key_sessions, sshVars, bridges, removeRets>>

WsHandler ==
    /\ NoOutput
    /\ WsHandlerWithin(MaxBridges)
    /\ UNCHANGED <<terminated, openVars, brVars, protoVars>>

(* impl Clone for SSHSession (ssh/session.rs 35-53) succeeded: the clone
   shares the shutdown flag; the lock is dropped and handle_socket starts *)
WsUpgrade ==
    /\ NoOutput
    /\ lock = "ws"
    /\ bridges' = Append(bridges,
                     [session_id |-> pending.arg,
                      shutdown_flag |-> sessions[pending.arg].ssh_session,
                      state |-> "running"])
    /\ resp' = [op |-> "ws", path |-> pending.before,
                session_id |-> pending.arg, status |-> 101,
                error |-> "", available_sessions |-> 0]
    /\ lock' = "free"
    /\ pending' = NoPending
    /\ UNCHANGED <<now, ticks, issued, regVars, sshVars, removeRets>>
    /\ UNCHANGED <<terminated, openVars, brVars, protoVars>>

WsClonePanic ==
    /\ NoOutput
    /\ lock = "ws"
    /\ resp' = [op |-> "ws", path |-> pending.before,
                session_id |-> pending.arg, status |-> 500,
                error |-> "panic", available_sessions |-> 0]
    /\ lock' = "free"
    /\ pending' = NoPending
    /\ UNCHANGED <<now, ticks, issued, regVars, sshVars, bridges, removeRets>>
    /\ UNCHANGED <<terminated, openVars, brVars, protoVars>>

-----------------------------------------------------------------------------
(* handle_socket (main.rs 366-422): the websocket handler returns, then the
   session is removed under the lock *)

BridgeEnds ==
    /\ NoOutput
    /\ \E b \in 1..Len(bridges) :
         /\ bridges[b].state = "running"
         /\ bridges' = [bridges EXCEPT ![b].state = "ended"]
    /\ UNCHANGED <<now, ticks, issued, regVars, sshVars, lock, pending, resp,
                   removeRets>>
    /\ UNCHANGED <<terminated, openVars, brVars, protoVars>>

BridgeCleanup ==
    /\ NoOutput
    /\ LockAvailable
    /\ \E b \in 1..Len(bridges) :
         /\ bridges[b].state = "ended"
         /\ bridges' = [bridges EXCEPT ![b].state = "cleanup"]
         /\ lock' = "bridge"
         /\ pending' = [NoPending EXCEPT !.todo = <<bridges[b].session_id>>,
                                         !.arg = bridges[b].session_id]
    /\ UNCHANGED <<now, ticks, issued, regVars, sshVars, resp, removeRets>>
    /\ UNCHANGED <<terminated, openVars, brVars, protoVars>>

BridgeReturn ==
    /\ NoOutput
    /\ lock = "bridge"
    /\ pending.todo = <<>>
    /\ \E b \in 1..Len(bridges) :
         /\ bridges[b].state = "cleanup"
         /\ bridges' = [bridges EXCEPT ![b].state = "done"]
    /\ resp' = [op |-> "bridge", session_id |-> pending.arg,
                removed |-> pending.ret]
    /\ lock' = "free"
    /\ pending' = NoPending
    /\ UNCHANGED <<now, ticks, issued, regVars, sshVars, removeRets>>
    /\ UNCHANGED <<terminated, openVars, brVars, protoVars>>

-----------------------------------------------------------------------------
(* The session cleanup task (main.rs 97-116) around cleanup_stale_sessions
   (session.rs 200-218).  main passes ReaperMaxIdle; the method takes any
   max_idle_time. *)

ReaperTick ==
    /\ NoOutput
    /\ LockAvailable
    /\ \E max_idle_time \in MaxIdles :
       \E stale \in Orders(stale_session_ids(max_idle_time)) :
         /\ lock' = "reaper"
         /\ pending' = [NoPending EXCEPT !.todo = stale,
                                         !.count = Len(stale),
                                         !.arg = <<max_idle_time>>,
                                         !.before = <<now, sessions>>]
    /\ UNCHANGED <<now, ticks, issued, regVars, sshVars, bridges, resp,
                   removeRets>>
    /\ UNCHANGED <<terminated, openVars, brVars, protoVars>>

ReaperReturn ==
    /\ NoOutput
    /\ lock = "reaper"
    /\ pending.todo = <<>>
    /\ resp' = [op |-> "reaper", max_idle_time |-> pending.arg[1],
                count |-> pending.count,
                total_sessions |-> total_sessions,
                total_portal_users |-> total_portal_users,
                total_devices |-> total_devices]
    /\ lock' = "free"
    /\ pending' = NoPending
    /\ UNCHANGED <<now, ticks, issued, regVars, sshVars, bridges, removeRets>>
    /\ UNCHANGED <<terminated, openVars, brVars, protoVars>>

-----------------------------------------------------------------------------
(* axum writes the response out (main.rs 165) *)

Respond ==
    /\ resp # NoResp
    /\ resp' = NoResp
    /\ UNCHANGED <<now, ticks, issued, regVars, sshVars, lock, pending,
                   bridges, removeRets>>
    /\ UNCHANGED <<terminated, openVars, brVars, protoVars>>

-----------------------------------------------------------------------------
(* SSHSession::new is idle in the server's specification *)

OpenIdle ==
    /\ o_in = [password |-> "none", private_key |-> <<>>, hint |-> "none"]
    /\ o_pc = "idle"
    /\ retry_count = 0
    /\ auth_retry_count = 0
    /\ o_log = <<>>
    /\ o_authed = FALSE
    /\ o_result = "none"
    /\ o_message = <<>>

(* handle_socket is not running in the server's specification *)
BridgeIdle ==
    /\ b_pc = "idle"
    /\ flags = [c \in {"cell-1", "cell-2"} |-> FALSE]
    /\ io = "idle"
    /\ rx_task = "idle"
    /\ tx_task = "idle"
    /\ client = "open"
    /\ ssh_input = <<>>
    /\ resize = <<>>
    /\ ssh_output = <<>>
    /\ ws_msg = <<>>
    /\ recvd = <<>>
    /\ written = <<>>
    /\ resized = <<>>
    /\ read_log = <<>>
    /\ sent = <<>>
    /\ close_count = 0
    /\ last_close = <<>>
    /\ saw = [fullscreen_app |-> FALSE, top_command |-> FALSE]

(* no BinaryMessage is on its way *)
ProtoIdle ==
    /\ p_pc = "idle"
    /\ p_message = [type |-> "none"]
    /\ p_binary = <<>>
    /\ p_decoded = [ok |-> FALSE, error |-> "none"]

Init ==
    /\ now = 0
    /\ ticks = 0
    /\ issued = <<>>
    /\ sessions = EmptyMap
    /\ portal_user_sessions = EmptyMap
    /\ device_sessions = EmptyMap
    /\ composite_key_sessions = EmptyMap
    /\ shutdown_flag = <<>>
    /\ closed = <<>>
    /\ lock = "free"
    /\ pending = NoPending
    /\ bridges = <<>>
    /\ resp = NoResp
    /\ removeRets = <<>>
    /\ terminated = {}
    /\ OpenIdle
    /\ BridgeIdle
    /\ ProtoIdle

Next ==
    \/ Tick
    \/ Connect
    \/ SessionStatusSingle
    \/ SessionStatus
    \/ SessionTerminate
    \/ TerminateReturn
    \/ WsHandler
    \/ WsUpgrade
    \/ WsClonePanic
    \/ BridgeEnds
    \/ BridgeCleanup
    \/ BridgeReturn
    \/ ReaperTick
    \/ ReaperReturn
    \/ RemoveTake
    \/ RemoveFinish
    \/ Respond

Spec == Init /\ [][Next]_vars

-----------------------------------------------------------------------------
(* SSHSession::new (ssh/session.rs 114-425), one call, a step per call it   *)
(* makes to the network.  o_log is the sequence of those calls with their   *)
(* results; o_result is what new returns.                                   *)

max_retries == 3          \* ssh/session.rs:177

max_auth_retries == 3     \* ssh/session.rs:253

NoHint == "<none>"

(* private_key: None, a PEM key, a key in another format *)
NoKey == <<>>
PemKey == <<"-----BEGIN", " RSA PRIVATE KEY-----", "MIIE", "-----END">>
OpenSshKey == <<"ssh-rsa ", "AAAA">>

(* the arguments password, private_key and device_type_hint *)
OpenInputs ==
    [password    : {"none", "some"},
     private_key : {NoKey, PemKey, OpenSshKey},
     hint        : {NoHint, "Cisco", "switch", "linux"}]

(* str::to_lowercase on the hints above *)
to_lowercase(hint) == IF hint = "Cisco" THEN "cisco" ELSE hint

(* a comparison of the hint as it was given *)
is_cisco_hint_as_given(hint) == hint \in {"cisco", "router", "switch"}

(* lines 360-361 *)
is_cisco_hint(hint) ==
    /\ hint # NoHint
    /\ to_lowercase(hint) \in {"cisco", "router", "switch"}

(* errors session.handshake() can return: ssh2 code and message *)
HandshakeErrors ==
    { [code |-> -13, message |-> <<"Failed getting ", "banner">>],
      [code |-> -13, message |-> <<"Socket disconnected">>],
      [code |-> -2,  message |-> <<"Failed sending ", "banner">>],
      [code |-> -5,  message |-> <<"Unable to exchange encryption keys">>] }

(* a test that looks at the message only *)
is_banner_error_by_message(e) == Contains(e.message, "banner")

(* lines 191-192 *)
is_banner_error(e) == e.code = -13 /\ Contains(e.message, "banner")

(* errors session.userauth_password() can return: -43 is "waiting for
   password response", -18 is "authentication failed" *)
AuthErrors == {[code |-> -43], [code |-> -18]}

Logged(call, result) == [call |-> call, result |-> result]

(* a handshake() that returned the error e *)
HandshakeFailed(e) ==
    [call |-> "handshake",
     result |-> IF is_banner_error(e) THEN "banner" ELSE "error",
     error |-> e]

Return(result) ==
    /\ o_pc' = "done"
    /\ o_result' = result
    /\ o_message' = <<>>

(* return Err(SSHError::Authentication(message)) *)
ReturnAuthentication(message) ==
    /\ o_pc' = "done"
    /\ o_result' = "AuthenticationError"
    /\ o_message' = message

(* a choice that looks at the private key before the password *)
auth_method_key_first(in) ==
    IF in.private_key # NoKey THEN "private_key"
    ELSE IF in.password # "none" THEN "password"
    ELSE "none"

(* lines 247, 325, 348: if let Some(password) .. else if let Some(key_data)
   .. else *)
auth_method(in) ==
    IF in.password # "none" THEN "password"
    ELSE IF in.private_key # NoKey THEN "private_key"
    ELSE "none"

(* line 332: key_data.contains("-----BEGIN") *)
is_pem(key_data) == Contains(key_data, "-----BEGIN")

(* the call of new with its arguments *)
OpenCall ==
    /\ o_pc = "idle"
    /\ \E in \in OpenInputs : o_in' = in
    /\ o_pc' = "dial"
    /\ UNCHANGED <<retry_count, auth_retry_count, o_log, o_authed, o_result, o_message>>
    /\ UNCHANGED <<srvVars, brVars, protoVars>>

(* lines 126-165, and 205-225 on a retry: TcpStream::connect, Session::new
   and the configuration of the transport *)
OpenDial ==
    /\ o_pc = "dial"
    /\ \E ok \in BOOLEAN :
         IF ok
         THEN /\ o_log' = Append(o_log, Logged("dial", "ok"))
              /\ o_pc' = "handshake"
              /\ UNCHANGED <<o_result, o_message>>
         ELSE /\ o_log' = Append(o_log, Logged("dial", "error"))
              /\ Return("ConnectionError")
    /\ UNCHANGED <<o_in, retry_count, auth_retry_count, o_authed>>
    /\ UNCHANGED <<srvVars, brVars, protoVars>>

(* lines 176-240: one turn of the handshake loop *)
OpenHandshake ==
    /\ o_pc = "handshake"
    /\ \/ /\ o_log' = Append(o_log, Logged("handshake", "ok"))
          /\ o_pc' = "auth"
          /\ UNCHANGED <<retry_count, o_result, o_message>>
       \/ \E e \in HandshakeErrors :
            /\ o_log' = Append(o_log, HandshakeFailed(e))
            /\ IF is_banner_error(e) /\ retry_count < max_retries
               THEN /\ retry_count' = retry_count + 1
                    /\ o_pc' = "dial"
                    /\ UNCHANGED <<o_result, o_message>>
               ELSE /\ Return("HandshakeError")
                    /\ UNCHANGED retry_count
    /\ UNCHANGED <<o_in, auth_retry_count, o_authed>>
    /\ UNCHANGED <<srvVars, brVars, protoVars>>

(* lines 247-324: one turn of the password loop *)
OpenAuthPassword ==
    /\ o_pc = "auth"
    /\ auth_method(o_in) = "password"
    /\ \/ /\ o_log' = Append(o_log, Logged("userauth_password", "ok"))
          /\ o_authed' = TRUE
          /\ o_pc' = "authenticated"
          /\ UNCHANGED <<auth_retry_count, o_result, o_message>>
       \/ \E e \in AuthErrors :
            /\ o_log' = Append(o_log,
                           Logged("userauth_password",
                                  IF e.code = -43 THEN "waiting"
                                                  ELSE "error"))
            /\ auth_retry_count' = auth_retry_count + 1
            /\ IF auth_retry_count + 1 < max_auth_retries
               THEN /\ o_pc' = IF e.code = -43 THEN "recreate" ELSE "auth"
                    /\ UNCHANGED <<o_result, o_message>>
               ELSE ReturnAuthentication(
                       <<"Password authentication failed after ",
                         max_auth_retries, " attempts: ", e.code>>)
            /\ UNCHANGED o_authed
    /\ UNCHANGED <<o_in, retry_count>>
    /\ UNCHANGED <<srvVars, brVars, protoVars>>

(* lines 276-308: the transport is made again after error -43; its one
   handshake is not retried *)
OpenAuthRecreate ==
    /\ o_pc = "recreate"
    /\ \/ /\ o_log' = Append(o_log, Logged("dial", "error"))
          /\ Return("ConnectionError")
       \/ \E e \in HandshakeErrors :
            /\ o_log' = o_log \o <<Logged("dial", "ok"), HandshakeFailed(e)>>
            /\ Return("HandshakeError")
       \/ /\ o_log' = o_log \o <<Logged("dial", "ok"),
                                 Logged("handshake", "ok")>>
          /\ o_pc' = "auth"
          /\ UNCHANGED <<o_result, o_message>>
    /\ UNCHANGED <<o_in, retry_count, auth_retry_count, o_authed>>
    /\ UNCHANGED <<srvVars, brVars, protoVars>>

(* lines 325-347: a private key and no password *)
OpenAuthPrivateKey ==
    /\ o_pc = "auth"
    /\ auth_method(o_in) = "private_key"
    /\ IF is_pem(o_in.private_key)
       THEN \/ /\ o_log' = Append(o_log, Logged("userauth_pubkey", "ok"))
               /\ o_authed' = TRUE
               /\ o_pc' = "authenticated"
               /\ UNCHANGED <<o_result, o_message>>
            \/ /\ o_log' = Append(o_log, Logged("userauth_pubkey", "error"))
               /\ ReturnAuthentication(
                      <<"Private key authentication failed: ", "error">>)
               /\ UNCHANGED o_authed
       ELSE /\ ReturnAuthentication(
                 <<"Unsupported private key format. Please provide a PEM formatted private key">>)
            /\ UNCHANGED <<o_log, o_authed>>
    /\ UNCHANGED <<o_in, retry_count, auth_retry_count>>
    /\ UNCHANGED <<srvVars, brVars, protoVars>>

(* lines 348-350: neither a password nor a private key *)
OpenAuthMissing ==
    /\ o_pc = "auth"
    /\ auth_method(o_in) = "none"
    /\ ReturnAuthentication(<<"No authentication method provided">>)
    /\ UNCHANGED <<o_in, retry_count, auth_retry_count, o_log, o_authed>>
    /\ UNCHANGED <<srvVars, brVars, protoVars>>

(* a new that goes on whatever session.authenticated() says *)
may_set_up_unchecked(authenticated) == TRUE

(* line 352: if !session.authenticated() { return Err(..) } *)
may_set_up(authenticated) == authenticated

(* lines 352-355: session.authenticated() *)
OpenAuthenticated ==
    /\ o_pc = "authenticated"
    /\ \E authenticated \in BOOLEAN :
         /\ o_log' = Append(o_log, Logged("authenticated", authenticated))
         /\ IF may_set_up(authenticated)
            THEN /\ o_pc' = IF is_cisco_hint(o_in.hint) THEN "cisco"
                                                        ELSE "standard"
                 /\ UNCHANGED <<o_result, o_message>>
            ELSE ReturnAuthentication(<<"Authentication failed">>)
    /\ UNCHANGED <<o_in, retry_count, auth_retry_count, o_authed>>
    /\ UNCHANGED <<srvVars, brVars, protoVars>>

(* lines 364-396: one rung of the fallback ladder; the error of the cisco
   rung is returned *)
RungError(rung) == [standard |-> "ChannelError(standard)",
                     linux    |-> "ChannelError(linux)",
                     cisco    |-> "ChannelError(cisco)"][rung]

SetupRung(rung, next) ==
    /\ \E ok \in BOOLEAN :
         /\ o_log' = Append(o_log,
                        Logged(rung, IF ok THEN "ok" ELSE "error"))
         /\ IF ok THEN Return("Ok")
            ELSE IF next = "none" THEN Return(RungError(rung))
            ELSE /\ o_pc' = next
                 /\ UNCHANGED <<o_result, o_message>>
    /\ UNCHANGED <<o_in, retry_count, auth_retry_count, o_authed>>
    /\ UNCHANGED <<srvVars, brVars, protoVars>>

OpenSetupStandard ==
    /\ o_pc = "standard"
    /\ SetupRung("standard", "linux")

OpenSetupLinux ==
    /\ o_pc = "linux"
    /\ SetupRung("linux", "cisco")

OpenSetupCisco ==
    /\ o_pc = "cisco"
    /\ SetupRung("cisco", "none")

NextOpen ==
    \/ OpenCall
    \/ OpenDial
    \/ OpenHandshake
    \/ OpenAuthPassword
    \/ OpenAuthRecreate
    \/ OpenAuthPrivateKey
    \/ OpenAuthMissing
    \/ OpenAuthenticated
    \/ OpenSetupStandard
    \/ OpenSetupLinux
    \/ OpenSetupCisco

SpecOpen == Init /\ [][NextOpen]_vars

-----------------------------------------------------------------------------
(* The bridge of one websocket: handle_socket (main.rs 366-422),            *)
(* WebSocketHandler::handle (websocket.rs 51-252) with its receiver and     *)
(* sender tasks, and SSHSession::start_io (ssh/session.rs 489-611) on the   *)
(* clone, one action per stage of its polling loop.                         *)

MaxFrames == 2        \* frames the client sends
MaxChunks == 2        \* chunks the SSH channel gives to read
MaxCloses == 2        \* close() calls on the registry's handle

MinRows == 24
MinCols == 80

(* capacities of the ssh_output queue and of the ws_msg queue *)
OutputCapacity == 32
WsMsgCapacity == 100

(* payloads of the client's input frames, as sequences of bytes *)
InChunks == {<<"a">>, <<"b", "c">>}

(* what the SSH channel gives to read *)
OutChunks == {<<"x">>, <<"ESC", "[", "H">>}

(* the resize frames the client sends *)
ResizeFrames == {[rows |-> 10, cols |-> 100], [rows |-> 30, cols |-> 40]}

(* the outcome of a libssh2 call *)
Outcomes == {"ok", "error"}

(* ssh/session.rs 554: closure_message *)
Farewell == <<"\r\n", "[SSH connection closed]", "\r\n">>

(* a maximum that lets the first value through *)
Max_unclamped(a, b) == a

Max(a, b) == IF a >= b THEN a ELSE b

(* the flag cell of the registry's SSHSession *)
OrigCell == "cell-1"

(* a clone that keeps the flag SSHSession::new made for it *)
clone_shutdown_flag_fresh(cell) == "cell-2"

(* ssh/session.rs 49: cloned.shutdown_flag = self.shutdown_flag.clone() *)
clone_shutdown_flag(cell) == cell

CloneCell == clone_shutdown_flag(OrigCell)

(* a close() that leaves the flag as it is *)
store_true_skipped(cell) == flags

(* shutdown_flag.store(true) / load() on a cell *)
store_true(cell) == [flags EXCEPT ![cell] = TRUE]

(* a filter that takes the escape bytes out *)
clean_control_sequences_strips(input) ==
    SelectSeq(input, LAMBDA byte : byte # "ESC")

(* ssh/session.rs 624-628 *)
clean_control_sequences(input) == input

(* Message::Binary(data.to_vec()) *)
Binary(data) == [type |-> "binary", data |-> data]

(* json!({"type": "pong"}) *)
Pong == [type |-> "pong"]

(* json!({"type": "info", "message": format!("Terminal resized to {}x{}")}) *)
Info(cols, rows) ==
    [type |-> "info", message |-> <<"Terminal resized to ", cols, "x", rows>>]

(* json!({"type": "error", "message": ...}) *)
ClosedNotice ==
    [type |-> "error",
     message |-> <<"SSH connection has been closed. Please reconnect.">>]

(* json!({"type": "refresh", "fullscreen": saw_fullscreen_app}) *)
Refresh(fullscreen) == [type |-> "refresh", fullscreen |-> fullscreen]

(* websocket.rs 203: data.windows(3).any(|w| w == b"\x1b[H" || w == b"\x1b[2J") *)
is_fullscreen(data) ==
    \E i \in 1..(Len(data) - 2) :
        SubSeq(data, i, i + 2) \in {<<"ESC", "[", "H">>, <<"ESC", "[", "2", "J">>}

(* websocket.rs 212: the output contains "top -", "Tasks:" or "Cpu(s):" *)
is_top(data) ==
    \E i \in 1..Len(data) : data[i] \in {"top -", "Tasks:", "Cpu(s):"}

(* start_io has not returned: it holds input_rx, output_tx and resize_rx *)
IoAlive == io \in {"check", "read", "sending", "input"}

(* handle() has not returned: it holds ssh_output_rx *)
OutputOpen == b_pc \in {"running", "refresh", "joining"}

(* a send that puts the message at the head of the queue *)
ws_msg_send_front(q, msg) == IF tx_task = "running" THEN <<msg>> \o q ELSE q

(* ws_msg_tx.send(msg): the message is queued while the sender task holds
   the receiving end *)
ws_msg_send(q, msg) == IF tx_task = "running" THEN Append(q, msg) ELSE q

(* ws_msg_tx.send(..).await completes: the queue has room, or the sender
   task has dropped ws_msg_rx and the send fails *)
ws_msg_ready == tx_task # "running" \/ Len(ws_msg) < WsMsgCapacity

(* output_tx.blocking_send(data) returns: the queue has room, or handle()
   has dropped ssh_output_rx and the send fails *)
output_ready == ~OutputOpen \/ Len(ssh_output) < OutputCapacity

(* output_tx.blocking_send(data) *)
output_send(data) == IF OutputOpen THEN Append(ssh_output, data) ELSE ssh_output

(* handle_socket, lines 373-403: the queues are made, start_io is spawned
   on the clone, handle() starts its two tasks *)
BridgeStart ==
    /\ b_pc = "idle"
    /\ b_pc' = "running"
    /\ io' = "check"
    /\ rx_task' = "running"
    /\ tx_task' = "running"
    /\ UNCHANGED <<flags, client, ssh_input, resize, ssh_output, ws_msg,
                   recvd, written, resized, read_log, sent, close_count,
                   last_close, saw>>
    /\ UNCHANGED <<srvVars, openVars, protoVars>>

(* websocket.rs 78-108: an input command *)
RecvInput ==
    /\ rx_task = "running"
    /\ client = "open"
    /\ Len(recvd) < MaxFrames
    /\ \E data \in InChunks :
         IF IoAlive
         THEN /\ ssh_input' = Append(ssh_input, data)
              /\ recvd' = Append(recvd, [type |-> "input", data |-> data,
                                         ok |-> TRUE])
              /\ UNCHANGED <<ws_msg, rx_task>>
         ELSE /\ ws_msg' = ws_msg_send(ws_msg, ClosedNotice)
              /\ rx_task' = "ended"
              /\ recvd' = Append(recvd, [type |-> "input", data |-> data,
                                         ok |-> FALSE])
              /\ UNCHANGED ssh_input
    /\ UNCHANGED <<b_pc, flags, io, tx_task, client, resize, ssh_output,
                   written, resized, read_log, sent, close_count, last_close,
                   saw>>
    /\ UNCHANGED <<srvVars, openVars, protoVars>>

(* websocket.rs 109-135: a resize command *)
RecvResize ==
    /\ rx_task = "running"
    /\ client = "open"
    /\ Len(recvd) < MaxFrames
    /\ \E f \in ResizeFrames :
         LET rows == Max(f.rows, MinRows)
             cols == Max(f.cols, MinCols)
         IN  IF IoAlive
             THEN /\ resize' = Append(resize, <<rows, cols>>)
                  /\ ws_msg' = ws_msg_send(ws_msg, Info(cols, rows))
                  /\ recvd' = Append(recvd, [type |-> "resize", data |-> f,
                                             ok |-> TRUE])
             ELSE /\ recvd' = Append(recvd, [type |-> "resize", data |-> f,
                                             ok |-> FALSE])
                  /\ UNCHANGED <<resize, ws_msg>>
    /\ UNCHANGED <<b_pc, flags, io, rx_task, tx_task, client, ssh_input,
                   ssh_output, written, resized, read_log, sent, close_count,
                   last_close, saw>>
    /\ UNCHANGED <<srvVars, openVars, protoVars>>

(* websocket.rs 136-144: a ping command *)
RecvPing ==
    /\ rx_task = "running"
    /\ client = "open"
    /\ Len(recvd) < MaxFrames
    /\ ws_msg' = ws_msg_send(ws_msg, Pong)
    /\ recvd' = Append(recvd, [type |-> "ping", data |-> <<>>,
                               ok |-> tx_task = "running"])
    /\ UNCHANGED <<b_pc, flags, io, rx_task, tx_task, client, ssh_input,
                   resize, ssh_output, written, resized, read_log, sent,
                   close_count, last_close, saw>>
    /\ UNCHANGED <<srvVars, openVars, protoVars>>

(* websocket.rs 72, 160-163: the client closes or its connection ends *)
RecvDisconnect ==
    /\ rx_task = "running"
    /\ client = "open"
    /\ client' = "gone"
    /\ rx_task' = "ended"
    /\ UNCHANGED <<b_pc, flags, io, tx_task, ssh_input, resize, ssh_output,
                   ws_msg, recvd, written, resized, read_log, sent,
                   close_count, last_close, saw>>
    /\ UNCHANGED <<srvVars, openVars, protoVars>>

(* websocket.rs 179-184: the sender task forwards one message; the send to a
   client that has stopped reading does not complete *)
SenderForward ==
    /\ tx_task = "running"
    /\ ws_msg # <<>>
    /\ client # "stalled"
    /\ IF client = "open"
       THEN /\ sent' = Append(sent, Head(ws_msg))
            /\ ws_msg' = Tail(ws_msg)
            /\ UNCHANGED tx_task
       ELSE /\ tx_task' = "ended"
            /\ ws_msg' = <<>>
            /\ UNCHANGED sent
    /\ UNCHANGED <<b_pc, flags, io, rx_task, client, ssh_input, resize,
                   ssh_output, recvd, written, resized, read_log,
                   close_count, last_close, saw>>
    /\ UNCHANGED <<srvVars, openVars, protoVars>>

(* websocket.rs 179: recv() gives None once the queue is empty and both
   ws_msg_tx (dropped at line 242) and ws_msg_tx_clone (owned by the
   receiver task) are gone *)
SenderEnds ==
    /\ tx_task = "running"
    /\ ws_msg = <<>>
    /\ b_pc \in {"joining", "returned", "removed"}
    /\ rx_task = "ended"
    /\ tx_task' = "ended"
    /\ UNCHANGED <<b_pc, flags, io, rx_task, client, ssh_input, resize,
                   ssh_output, ws_msg, recvd, written, resized, read_log,
                   sent, close_count, last_close, saw>>
    /\ UNCHANGED <<srvVars, openVars, protoVars>>

(* websocket.rs 196-225: the forwarder takes one chunk of SSH output *)
Forward ==
    /\ b_pc = "running"
    /\ ssh_output # <<>>
    /\ ws_msg_ready
    /\ LET data == Head(ssh_output)
           s == [fullscreen_app |-> saw.fullscreen_app \/ is_fullscreen(data),
                 top_command |-> saw.top_command \/ is_top(data)]
       IN  /\ ssh_output' = Tail(ssh_output)
           /\ saw' = s
           /\ ws_msg' = ws_msg_send(ws_msg, Binary(data))
           /\ b_pc' = IF tx_task # "running" THEN "joining"
                      ELSE IF s.fullscreen_app \/ s.top_command THEN "refresh"
                      ELSE "running"
    /\ UNCHANGED <<flags, io, rx_task, tx_task, client, ssh_input, resize,
                   recvd, written, resized, read_log, sent, close_count,
                   last_close>>
    /\ UNCHANGED <<srvVars, openVars, protoVars>>

(* websocket.rs 228-237: the refresh notification after a chunk *)
ForwardRefresh ==
    /\ b_pc = "refresh"
    /\ ws_msg_ready
    /\ ws_msg' = ws_msg_send(ws_msg, Refresh(saw.fullscreen_app))
    /\ b_pc' = "running"
    /\ UNCHANGED <<flags, io, rx_task, tx_task, client, ssh_input, resize,
                   ssh_output, recvd, written, resized, read_log, sent,
                   close_count, last_close, saw>>
    /\ UNCHANGED <<srvVars, openVars, protoVars>>

(* websocket.rs 196, 242: ssh_output_rx.recv() gives None once start_io has
   returned and the queue is empty; ws_msg_tx is dropped *)
ForwardEnds ==
    /\ b_pc = "running"
    /\ ssh_output = <<>>
    /\ ~IoAlive
    /\ b_pc' = "joining"
    /\ UNCHANGED <<flags, io, rx_task, tx_task, client, ssh_input, resize,
                   ssh_output, ws_msg, recvd, written, resized, read_log,
                   sent, close_count, last_close, saw>>
    /\ UNCHANGED <<srvVars, openVars, protoVars>>

(* websocket.rs 245-252: sender_task.await completes and handle() returns *)
HandleReturns ==
    /\ b_pc = "joining"
    /\ tx_task = "ended"
    /\ b_pc' = "returned"
    /\ ssh_output' = <<>>
    /\ UNCHANGED <<flags, io, rx_task, tx_task, client, ssh_input, resize,
                   ws_msg, recvd, written, resized, read_log, sent,
                   close_count, last_close, saw>>
    /\ UNCHANGED <<srvVars, openVars, protoVars>>

(* ssh/session.rs 446-455: resize_pty clamps again and asks the server *)
resize_pty(rows, cols) ==
    [rows |-> rows, cols |-> cols,
     request |-> <<Max(cols, MinCols), Max(rows, MinRows)>>]

(* start_io returns: input_rx and resize_rx are dropped with what they hold *)
IoDropsQueues ==
    /\ ssh_input' = <<>>
    /\ resize' = <<>>

(* ssh/session.rs 506-531: the flag check at the top of the loop, then the
   pending resize commands are drained *)
IoCheck ==
    /\ io = "check"
    /\ IF flags[CloneCell]
       THEN /\ io' = "done"
            /\ IoDropsQueues
            /\ UNCHANGED resized
       ELSE /\ io' = "read"
            /\ resized' = resized \o [i \in 1..Len(resize) |->
                                         resize_pty(resize[i][1], resize[i][2])]
            /\ resize' = <<>>
            /\ UNCHANGED ssh_input
    /\ UNCHANGED <<b_pc, flags, rx_task, tx_task, client, ssh_output, ws_msg,
                   recvd, written, read_log, sent, close_count, last_close,
                   saw>>
    /\ UNCHANGED <<srvVars, openVars, protoVars>>

(* ssh/session.rs 514-521: keepalive_send fails *)
IoKeepaliveFails ==
    /\ io = "check"
    /\ ~flags[CloneCell]
    /\ io' = "done"
    /\ IoDropsQueues
    /\ UNCHANGED <<b_pc, flags, rx_task, tx_task, client, ssh_output, ws_msg,
                   recvd, written, resized, read_log, sent, close_count,
                   last_close, saw>>
    /\ UNCHANGED <<srvVars, openVars, protoVars>>

(* ssh/session.rs 540-546: blocking_send has returned *)
SendReturns(cleaned_data) ==
    /\ ssh_output' = output_send(cleaned_data)
    /\ IF OutputOpen
       THEN /\ io' = "input"
            /\ UNCHANGED <<ssh_input, resize>>
       ELSE /\ io' = "done"
            /\ IoDropsQueues

(* ssh/session.rs 536-547: the n > 0 bytes read are cleaned and sent to the
   forwarder; the queue of OutputCapacity chunks has room within MaxChunks,
   so blocking_send returns at once *)
ReadGives(chunk) ==
    LET cleaned_data == clean_control_sequences(chunk)
    IN  /\ read_log' = Append(read_log, chunk)
        /\ SendReturns(cleaned_data)

(* ssh/session.rs 534-547: channel.read gives n > 0 bytes *)
IoRead ==
    /\ io = "read"
    /\ Len(read_log) < MaxChunks
    /\ \E chunk \in OutChunks : ReadGives(chunk)
    /\ UNCHANGED <<b_pc, flags, rx_task, tx_task, client, ws_msg, recvd,
                   written, resized, sent, close_count, last_close, saw>>
    /\ UNCHANGED <<srvVars, openVars, protoVars>>

(* ssh/session.rs 560-562: channel.read would block *)
IoReadNothing ==
    /\ io = "read"
    /\ io' = "input"
    /\ UNCHANGED <<b_pc, flags, rx_task, tx_task, client, ssh_input, resize,
                   ssh_output, ws_msg, recvd, written, resized, read_log,
                   sent, close_count, last_close, saw>>
    /\ UNCHANGED <<srvVars, openVars, protoVars>>

(* ssh/session.rs 548-558: channel.read gives 0 bytes at EOF *)
IoEof ==
    /\ io = "read"
    /\ flags' = store_true(CloneCell)
    /\ ssh_output' = output_send(Farewell)
    /\ io' = "done"
    /\ IoDropsQueues
    /\ UNCHANGED <<b_pc, rx_task, tx_task, client, ws_msg, recvd, written,
                   resized, read_log, sent, close_count, last_close, saw>>
    /\ UNCHANGED <<srvVars, openVars, protoVars>>

(* ssh/session.rs 563-566: channel.read fails *)
IoReadFails ==
    /\ io = "read"
    /\ io' = "failed"
    /\ IoDropsQueues
    /\ UNCHANGED <<b_pc, flags, rx_task, tx_task, client, ssh_output, ws_msg,
                   recvd, written, resized, read_log, sent, close_count,
                   last_close, saw>>
    /\ UNCHANGED <<srvVars, openVars, protoVars>>

(* the outcome of write_all and flush on one chunk *)
WriteOutcomes == {"ok", "flush_error", "wouldblock", "closed", "error"}

(* ssh/session.rs 570-603: one chunk is taken from input_rx and written *)
IoWrite ==
    /\ io = "input"
    /\ ssh_input # <<>>
    /\ \E r \in WriteOutcomes :
         /\ written' = IF r \in {"ok", "flush_error"}
                       THEN Append(written, Head(ssh_input)) ELSE written
         /\ flags' = IF r = "closed" THEN store_true(CloneCell) ELSE flags
         /\ io' = CASE r = "ok" -> "input"
                    [] r \in {"wouldblock", "closed"} -> "check"
                    [] OTHER -> "failed"
         /\ IF r \in {"flush_error", "error"}
            THEN IoDropsQueues
            ELSE /\ ssh_input' = Tail(ssh_input)
                 /\ UNCHANGED resize
    /\ UNCHANGED <<b_pc, rx_task, tx_task, client, ssh_output, ws_msg, recvd,
                   resized, read_log, sent, close_count, last_close, saw>>
    /\ UNCHANGED <<srvVars, openVars, protoVars>>

(* ssh/session.rs 570, 606: input_rx is empty; the loop sleeps and repeats *)
IoInputEmpty ==
    /\ io = "input"
    /\ ssh_input = <<>>
    /\ io' = "check"
    /\ UNCHANGED <<b_pc, flags, rx_task, tx_task, client, ssh_input, resize,
                   ssh_output, ws_msg, recvd, written, resized, read_log,
                   sent, close_count, last_close, saw>>
    /\ UNCHANGED <<srvVars, openVars, protoVars>>

(* a close() that gives up at the first call that fails *)
close_until_failure(r) ==
    IF r[1] = "error"
    THEN [calls |-> <<"channel.close">>, ret |-> "Err"]
    ELSE IF r[2] = "error"
    THEN [calls |-> <<"channel.close", "channel.send_eof">>, ret |-> "Err"]
    ELSE [calls |-> <<"channel.close", "channel.send_eof",
                      "session.disconnect">>,
          ret |-> IF r[3] = "error" THEN "Err" ELSE "Ok"]

(* ssh/session.rs 70-98: the calls close() makes and what it returns, given
   the outcomes r of channel.close, channel.send_eof, session.disconnect *)
close(r) ==
    [calls |-> <<"channel.close", "channel.send_eof", "session.disconnect">>,
     ret |-> "Ok"]

(* ssh/session.rs 63-99: close() on the registry's SSHSession, called by
   remove_session (session.rs 162) or by any other holder of the session *)
CloseOrig ==
    /\ close_count < MaxCloses
    /\ flags' = store_true(OrigCell)
    /\ close_count' = close_count + 1
    /\ \E r \in Outcomes \X Outcomes \X Outcomes : last_close' = close(r)
    /\ UNCHANGED <<b_pc, io, rx_task, tx_task, client, ssh_input, resize,
                   ssh_output, ws_msg, recvd, written, resized, read_log,
                   sent, saw>>
    /\ UNCHANGED <<srvVars, openVars, protoVars>>

(* main.rs 409-419: handle() has returned; remove_session closes the
   session if the registry still holds it *)
BridgeRemove ==
    /\ b_pc = "returned"
    /\ b_pc' = "removed"
    /\ IF close_count = 0
       THEN /\ flags' = store_true(OrigCell)
            /\ close_count' = close_count + 1
            /\ \E r \in Outcomes \X Outcomes \X Outcomes :
                 last_close' = close(r)
       ELSE UNCHANGED <<flags, close_count, last_close>>
    /\ UNCHANGED <<io, rx_task, tx_task, client, ssh_input, resize,
                   ssh_output, ws_msg, recvd, written, resized, read_log,
                   sent, saw>>
    /\ UNCHANGED <<srvVars, openVars, protoVars>>

(* the steps of the program: they need no move of the client, of the SSH
   server or of another request *)
ProgNext ==
    \/ SenderForward
    \/ SenderEnds
    \/ Forward
    \/ ForwardRefresh
    \/ ForwardEnds
    \/ HandleReturns
    \/ BridgeRemove
    \/ IoCheck
    \/ IoReadNothing
    \/ IoWrite
    \/ IoInputEmpty

NextBridge ==
    \/ BridgeStart
    \/ RecvInput
    \/ RecvResize
    \/ RecvPing
    \/ RecvDisconnect
    \/ SenderForward
    \/ SenderEnds
    \/ Forward
    \/ ForwardRefresh
    \/ ForwardEnds
    \/ HandleReturns
    \/ BridgeRemove
    \/ IoCheck
    \/ IoKeepaliveFails
    \/ IoRead
    \/ IoReadNothing
    \/ IoEof
    \/ IoReadFails
    \/ IoWrite
    \/ IoInputEmpty
    \/ CloseOrig

SpecBridge == Init /\ [][NextBridge]_vars

-----------------------------------------------------------------------------
(* Text frames that are not one of the three commands (websocket.rs 74-150) *)
(* A text is given by whether it is JSON and, if so, by its object.         *)

NotJson == [json |-> FALSE, object |-> <<>>]

JsonObject(object) == [json |-> TRUE, object |-> object]

(* text frames other than input and resize commands *)
OtherTexts ==
    { NotJson,
      JsonObject([type |-> "ping"]),
      JsonObject([type |-> "pong"]),
      JsonObject([type |-> "Ping"]),
      JsonObject([data |-> "ls"]),
      JsonObject([type |-> "input"]) }

ParseError == [type |-> "error"]

(* a parser that takes the tag whatever its case and any other tag for a
   ping *)
from_str_lenient(text) ==
    IF ~text.json \/ "type" \notin DOMAIN text.object THEN ParseError
    ELSE IF text.object.type \in {"input", "resize"} THEN ParseError
    ELSE [type |-> "ping"]

(* websocket.rs 9-18, 76: serde_json::from_str::<WSCommand> on the texts
   above: the tag "type" selects the variant, whose fields must be there *)
from_str(text) ==
    LET o == text.object
    IN  IF ~text.json \/ "type" \notin DOMAIN o THEN ParseError
        ELSE IF o.type = "ping" THEN [type |-> "ping"]
        ELSE IF o.type = "input" /\ "data" \in DOMAIN o
             THEN [type |-> "input", data |-> o.data]
        ELSE IF o.type = "resize" /\ {"rows", "cols"} \subseteq DOMAIN o
             THEN [type |-> "resize", rows |-> o.rows, cols |-> o.cols]
        ELSE ParseError

(* websocket.rs 74-77, 136-149: a text frame of OtherTexts, which parses
   to a ping or to no command *)
RecvText ==
    /\ rx_task = "running"
    /\ client = "open"
    /\ Len(recvd) < MaxFrames
    /\ \E text \in OtherTexts :
         LET cmd == from_str(text)
         IN  IF cmd = ParseError
             THEN /\ recvd' = Append(recvd, [type |-> "malformed",
                                             text |-> text, ok |-> FALSE])
                  /\ UNCHANGED ws_msg
             ELSE /\ ws_msg' = ws_msg_send(ws_msg, Pong)
                  /\ recvd' = Append(recvd, [type |-> "ping", text |-> text,
                                             ok |-> tx_task = "running"])
    /\ UNCHANGED <<b_pc, flags, io, rx_task, tx_task, client, ssh_input,
                   resize, ssh_output, written, resized, read_log, sent,
                   close_count, last_close, saw>>
    /\ UNCHANGED <<srvVars, openVars, protoVars>>

(* the bridge of a client that also sends such text frames, on an SSH side
   that is silent *)
NextFrames ==
    \/ BridgeStart
    \/ RecvText
    \/ RecvInput
    \/ RecvResize
    \/ RecvPing
    \/ RecvDisconnect
    \/ SenderForward
    \/ IoCheck
    \/ IoReadNothing
    \/ IoWrite
    \/ IoInputEmpty

SpecFrames == Init /\ [][NextFrames]_vars

-----------------------------------------------------------------------------
(* Output of terminal applications (websocket.rs 193-237) *)

(* what the SSH channel gives to read when a full-screen program runs: text,
   cursor home, clear screen, the header of top, and a clear screen that
   comes with a cursor home *)
ScreenChunks ==
    { <<"x">>,
      <<"ESC", "[", "H">>,
      <<"ESC", "[", "2", "J">>,
      <<"top -", " 10:00:00 up">>,
      <<"x", "ESC", "[", "2", "J", "ESC", "[", "H">> }

(* ssh/session.rs 534-547: channel.read gives such output *)
IoReadScreen ==
    /\ io = "read"
    /\ Len(read_log) < MaxChunks
    /\ \E chunk \in ScreenChunks : ReadGives(chunk)
    /\ UNCHANGED <<b_pc, flags, rx_task, tx_task, client, ws_msg, recvd,
                   written, resized, sent, close_count, last_close, saw>>
    /\ UNCHANGED <<srvVars, openVars, protoVars>>

(* the bridge of a silent client on an SSH side that runs such programs *)
NextScreen ==
    \/ BridgeStart
    \/ IoCheck
    \/ IoReadScreen
    \/ IoReadNothing
    \/ IoInputEmpty
    \/ Forward
    \/ ForwardRefresh
    \/ SenderForward

SpecScreen == Init /\ [][NextScreen]_vars

-----------------------------------------------------------------------------
(* A client that stops reading (main.rs 375, websocket.rs 57, 179-184,
   ssh/session.rs 534-547) *)

(* the client keeps its connection but reads no more frames: the send of
   the sender task stays pending *)
ClientStalls ==
    /\ b_pc = "running"
    /\ client = "open"
    /\ client' = "stalled"
    /\ UNCHANGED <<b_pc, flags, io, rx_task, tx_task, ssh_input, resize,
                   ssh_output, ws_msg, recvd, written, resized, read_log,
                   sent, close_count, last_close, saw>>
    /\ UNCHANGED <<srvVars, openVars, protoVars>>

(* ssh/session.rs 534-540: channel.read gives output while the client does
   not read; the thread enters blocking_send with it *)
IoReadBacklog ==
    /\ io = "read"
    /\ client = "stalled"
    /\ read_log' = Append(read_log, <<"x">>)
    /\ io' = "sending"
    /\ UNCHANGED <<b_pc, flags, rx_task, tx_task, client, ssh_input, resize,
                   ssh_output, ws_msg, recvd, written, resized, sent,
                   close_count, last_close, saw>>
    /\ UNCHANGED <<srvVars, openVars, protoVars>>

(* ssh/session.rs 540-546: blocking_send returns for the chunk read last *)
IoSendCompletes ==
    /\ io = "sending"
    /\ output_ready
    /\ SendReturns(clean_control_sequences(read_log[Len(read_log)]))
    /\ UNCHANGED <<b_pc, flags, rx_task, tx_task, client, ws_msg, recvd,
                   written, resized, read_log, sent, close_count, last_close,
                   saw>>
    /\ UNCHANGED <<srvVars, openVars, protoVars>>

(* the bridge of a client that stops reading while the SSH side produces
   output and the session is closed by another request *)
NextStall ==
    \/ BridgeStart
    \/ ClientStalls
    \/ IoCheck
    \/ IoReadBacklog
    \/ IoReadNothing
    \/ IoSendCompletes
    \/ IoInputEmpty
    \/ Forward
    \/ CloseOrig

SpecStall == Init /\ [][NextStall]_vars

-----------------------------------------------------------------------------
(* Client frames after start_io has returned (websocket.rs 82-107, 151-159) *)

(* websocket.rs 151-159: a binary frame; its bytes are queued as input, and
   when the queue is closed the receiver only logs and leaves its loop *)
RecvBinary ==
    /\ rx_task = "running"
    /\ client = "open"
    /\ Len(recvd) < MaxFrames
    /\ \E data \in InChunks :
         IF IoAlive
         THEN /\ ssh_input' = Append(ssh_input, data)
              /\ recvd' = Append(recvd, [type |-> "binary", data |-> data,
                                         ok |-> TRUE])
              /\ UNCHANGED rx_task
         ELSE /\ rx_task' = "ended"
              /\ recvd' = Append(recvd, [type |-> "binary", data |-> data,
                                         ok |-> FALSE])
              /\ UNCHANGED ssh_input
    /\ UNCHANGED <<b_pc, flags, io, tx_task, client, resize, ssh_output,
                   ws_msg, written, resized, read_log, sent, close_count,
                   last_close, saw>>
    /\ UNCHANGED <<srvVars, openVars, protoVars>>

(* the bridge of a client that sends text and binary input while start_io
   runs and after it has failed *)
NextInput ==
    \/ BridgeStart
    \/ RecvInput
    \/ RecvBinary
    \/ IoCheck
    \/ IoReadNothing
    \/ IoReadFails
    \/ IoWrite
    \/ IoInputEmpty
    \/ SenderForward
    \/ SenderEnds
    \/ ForwardEnds
    \/ HandleReturns
    \/ BridgeRemove

SpecInput == Init /\ [][NextInput]_vars

-----------------------------------------------------------------------------
(* The binary message protocol (protocol.rs) *)

(* protocol.rs 46: messages whose serialization is longer are gzipped *)
CompressThreshold == 1024

(* n as w bytes, little endian (bincode's fixed-width integers) *)
RECURSIVE ToLE(_, _)
ToLE(n, w) == IF w = 0 THEN <<>> ELSE <<n % 256>> \o ToLE(n \div 256, w - 1)

(* the integer that the bytes s hold, little endian *)
RECURSIVE FromLE(_)
FromLE(s) == IF s = <<>> THEN 0 ELSE s[1] + 256 * FromLE(Tail(s))

(* bincode of a String or Vec<u8>: the length as u64, then the bytes *)
Prefixed(s) == ToLE(Len(s), 8) \o s

(* bincode::serialize(self): the variant index as u32, then the fields in
   the order of their declaration *)
bincode_serialize(m) ==
    CASE m.type = "TerminalOutput" ->
           ToLE(0, 4) \o Prefixed(m.data) \o <<IF m.compressed THEN 1 ELSE 0>>
      [] m.type = "TerminalInput" -> ToLE(1, 4) \o Prefixed(m.data)
      [] m.type = "Resize" -> ToLE(2, 4) \o ToLE(m.cols, 2) \o ToLE(m.rows, 2)
      [] m.type = "Ping" -> ToLE(3, 4)
      [] m.type = "Pong" -> ToLE(4, 4)
      [] m.type = "SessionInfo" ->
           ToLE(5, 4) \o Prefixed(m.session_id) \o Prefixed(m.message)
      [] m.type = "Error" ->
           ToLE(6, 4) \o Prefixed(m.code) \o Prefixed(m.message)

Failed(error) == [ok |-> FALSE, error |-> error]

(* the length-prefixed bytes that start at place at of s *)
ReadPrefixed(s, at) ==
    IF Len(s) < at + 7
    THEN Failed("io error: unexpected end of file")
    ELSE LET n == FromLE(SubSeq(s, at, at + 7))
         IN  IF Len(s) < at + 7 + n
             THEN Failed("io error: unexpected end of file")
             ELSE [ok |-> TRUE, value |-> SubSeq(s, at + 8, at + 7 + n),
                   next |-> at + 8 + n]

(* two length-prefixed fields, one after the other, from place 5 *)
ReadTwo(s, type, first, second) ==
    LET a == ReadPrefixed(s, 5)
    IN  IF ~a.ok THEN a
        ELSE LET b == ReadPrefixed(s, a.next)
             IN  IF ~b.ok THEN b
                 ELSE [ok |-> TRUE,
                       message |-> (first :> a.value) @@ (second :> b.value)
                                      @@ [type |-> type]]

(* bincode::deserialize::<BinaryMessage>(&serialized) *)
bincode_deserialize(s) ==
    IF Len(s) < 4 THEN Failed("io error: unexpected end of file")
    ELSE LET variant == FromLE(SubSeq(s, 1, 4))
         IN  CASE variant = 0 ->
                    LET d == ReadPrefixed(s, 5)
                    IN  IF ~d.ok THEN d
                        ELSE IF Len(s) < d.next
                        THEN Failed("io error: unexpected end of file")
                        ELSE IF s[d.next] \notin {0, 1}
                        THEN Failed("invalid u8 while decoding bool")
                        ELSE [ok |-> TRUE,
                              message |-> [type |-> "TerminalOutput",
                                           data |-> d.value,
                                           compressed |-> s[d.next] = 1]]
               [] variant = 1 ->
                    LET d == ReadPrefixed(s, 5)
                    IN  IF ~d.ok THEN d
                        ELSE [ok |-> TRUE,
                              message |-> [type |-> "TerminalInput",
                                           data |-> d.value]]
               [] variant = 2 ->
                    IF Len(s) < 8
                    THEN Failed("io error: unexpected end of file")
                    ELSE [ok |-> TRUE,
                          message |-> [type |-> "Resize",
                                       cols |-> FromLE(SubSeq(s, 5, 6)),
                                       rows |-> FromLE(SubSeq(s, 7, 8))]]
               [] variant = 3 -> [ok |-> TRUE, message |-> [type |-> "Ping"]]
               [] variant = 4 -> [ok |-> TRUE, message |-> [type |-> "Pong"]]
               [] variant = 5 -> ReadTwo(s, "SessionInfo", "session_id", "message")
               [] variant = 6 -> ReadTwo(s, "Error", "code", "message")
               [] OTHER -> Failed("invalid value: variant index")

(* deflate codes a run of at most this many bytes in one symbol *)
MaxMatch == 258

(* the deflate stream of d: blocks of at most MaxMatch bytes, a block of one
   repeated byte coded by its length and the byte, any other block stored *)
RECURSIVE deflate(_)
deflate(d) ==
    IF d = <<>> THEN <<>>
    ELSE LET n == IF Len(d) < MaxMatch THEN Len(d) ELSE MaxMatch
             block == SubSeq(d, 1, n)
         IN  (IF \A i \in 1..n : block[i] = block[1]
              THEN <<1>> \o ToLE(n, 2) \o <<block[1]>>
              ELSE <<0>> \o ToLE(n, 2) \o block)
             \o deflate(SubSeq(d, n + 1, Len(d)))

RECURSIVE inflate(_)
inflate(c) ==
    IF c = <<>> THEN [ok |-> TRUE, data |-> <<>>]
    ELSE IF Len(c) < 3 THEN Failed("corrupt deflate stream")
    ELSE LET n == FromLE(SubSeq(c, 2, 3))
             used == IF c[1] = 1 THEN 4 ELSE 3 + n
         IN  IF c[1] \notin {0, 1} \/ Len(c) < used
             THEN Failed("corrupt deflate stream")
             ELSE LET rest == inflate(SubSeq(c, used + 1, Len(c)))
                      block == IF c[1] = 1 THEN [i \in 1..n |-> c[4]]
                               ELSE SubSeq(c, 4, 3 + n)
                  IN  IF ~rest.ok THEN rest
                      ELSE [ok |-> TRUE, data |-> block \o rest.data]

(* the check value of the gzip trailer, here the sum of the bytes *)
RECURSIVE SumOf(_, _)
SumOf(values, d) ==
    IF values = {} THEN 0
    ELSE LET v == CHOOSE x \in values : TRUE
         IN  v * Cardinality({i \in DOMAIN d : d[i] = v})
               + SumOf(values \ {v}, d)

Checksum(d) == SumOf({d[i] : i \in DOMAIN d}, d)

(* the gzip member header: magic, deflate, no flags, no mtime, fastest,
   unknown OS *)
GzHeader == <<31, 139, 8, 0, 0, 0, 0, 0, 4, 255>>

(* GzEncoder::new(Vec::new(), Compression::fast()), write_all, finish *)
gzip(d) == GzHeader \o deflate(d) \o ToLE(Checksum(d), 4) \o ToLE(Len(d), 4)

(* GzDecoder::new(payload).read_to_end *)
gunzip(c) ==
    IF Len(c) < 18 \/ SubSeq(c, 1, 3) # SubSeq(GzHeader, 1, 3)
    THEN Failed("invalid gzip header")
    ELSE LET r == inflate(SubSeq(c, 11, Len(c) - 8))
         IN  IF ~r.ok THEN r
             ELSE IF \/ FromLE(SubSeq(c, Len(c) - 7, Len(c) - 4))
                          # Checksum(r.data)
                     \/ FromLE(SubSeq(c, Len(c) - 3, Len(c))) # Len(r.data)
             THEN Failed("corrupt gzip stream does not have a matching checksum")
             ELSE r

(* a to_binary that sets the flag for every large message *)
to_binary_flags_large(m) ==
    LET serialized == bincode_serialize(m)
        compressed == gzip(serialized)
    IN  IF Len(serialized) > CompressThreshold
        THEN <<1>> \o (IF Len(compressed) < Len(serialized)
                       THEN compressed ELSE serialized)
        ELSE <<0>> \o serialized

(* protocol.rs 41-62 *)
to_binary(m) ==
    LET serialized == bincode_serialize(m)
        compressed == gzip(serialized)
    IN  IF Len(serialized) > CompressThreshold
           /\ Len(compressed) < Len(serialized)
        THEN <<1>> \o compressed
        ELSE <<0>> \o serialized

(* protocol.rs 65-84 *)
from_binary(data) ==
    IF data = <<>> THEN Failed("Empty data")
    ELSE LET compressed == data[1] = 1
             payload == Tail(data)
             serialized == IF compressed THEN gunzip(payload)
                           ELSE [ok |-> TRUE, data |-> payload]
         IN  IF ~serialized.ok THEN serialized
             ELSE bincode_deserialize(serialized.data)

(* n times the byte b *)
Repeat(b, n) == [i \in 1..n |-> b]

(* bytes of terminal output: none, ESC [ H, a screen of one character, text
   that does not repeat, and the two lengths around the threshold *)
OutputData ==
    { <<>>, <<27, 91, 72>>, Repeat(32, 2000), [i \in 1..1100 |-> 48 + (i % 7)],
      Repeat(65, CompressThreshold - 13), Repeat(65, CompressThreshold - 12) }

(* UTF-8 texts *)
Texts == { <<>>, <<108, 115, 10>>, Repeat(97, 1500) }

Dimensions == {0, 80, 255, 256, 65535}

(* the values of BinaryMessage the model sends (protocol.rs 8-37) *)
Messages ==
    [type : {"TerminalOutput"}, data : OutputData, compressed : BOOLEAN]
    \cup [type : {"TerminalInput"}, data : Texts]
    \cup [type : {"Resize"}, cols : Dimensions, rows : Dimensions]
    \cup [type : {"Ping", "Pong"}]
    \cup [type : {"SessionInfo"}, session_id : {<<115, 49>>},
          message : Texts]
    \cup [type : {"Error"}, code : {<<69, 49>>}, message : Texts]

(* a message is made by one of the constructors (protocol.rs 87-112) *)
ProtoMake ==
    /\ p_pc = "idle"
    /\ \E m \in Messages : p_message' = m
    /\ p_pc' = "made"
    /\ UNCHANGED <<p_binary, p_decoded>>
    /\ UNCHANGED <<srvVars, openVars, brVars>>

(* protocol.rs 41-62: the sender encodes it *)
ToBinary ==
    /\ p_pc = "made"
    /\ p_binary' = to_binary(p_message)
    /\ p_pc' = "encoded"
    /\ UNCHANGED <<p_message, p_decoded>>
    /\ UNCHANGED <<srvVars, openVars, brVars>>

(* protocol.rs 65-84: the receiver decodes the bytes *)
FromBinary ==
    /\ p_pc = "encoded"
    /\ p_decoded' = from_binary(p_binary)
    /\ p_pc' = "decoded"
    /\ UNCHANGED <<p_message, p_binary>>
    /\ UNCHANGED <<srvVars, openVars, brVars>>

(* protocol.rs 65-68: the receiver is given no bytes *)
FromBinaryEmpty ==
    /\ p_pc = "idle"
    /\ p_decoded' = from_binary(<<>>)
    /\ p_pc' = "rejected"
    /\ UNCHANGED <<p_message, p_binary>>
    /\ UNCHANGED <<srvVars, openVars, brVars>>

NextProtocol ==
    \/ ProtoMake
    \/ ToBinary
    \/ FromBinary
    \/ FromBinaryEmpty

SpecProtocol == Init /\ [][NextProtocol]_vars

-----------------------------------------------------------------------------
(* The registry with several sessions of one user, device and SSH user
   (session.rs 43-218) *)

MaxAdds == 2          \* add_session calls explored for the registry alone

(* connect_handler (main.rs 175-248), as often as MaxAdds allows *)
ConnectRepeat ==
    /\ NoOutput
    /\ ConnectWithin(MaxAdds)
    /\ UNCHANGED <<now, ticks, lock, pending, bridges, terminated>>
    /\ UNCHANGED <<openVars, brVars, protoVars>>

(* the composite key of a session *)
CompositeKey(info) == <<info.portal_user_id, info.device_id, info.ssh_username>>

(* the keys a caller may ask for: those of the sessions ever added, and one
   that was never added *)
CompositeKeys ==
    {<<issued[n][2], issued[n][4], issued[n][6]>> : n \in 1..Len(issued)}
      \cup {<<"u1", "d3", "root">>}

(* session.rs 115-136: the id get_session_by_composite_key returns, None
   when the key is not in the map or its id is not in sessions *)
get_session_by_composite_key(key) ==
    IF key \in DOMAIN composite_key_sessions
       /\ composite_key_sessions[key] \in DOMAIN sessions
    THEN composite_key_sessions[key]
    ELSE None

(* a caller of get_session_by_composite_key, under the registry's guard; a
   hit stamps last_activity (session.rs 130) *)
GetByCompositeKey ==
    /\ NoOutput
    /\ LockAvailable
    /\ \E key \in CompositeKeys :
         LET session_id == get_session_by_composite_key(key)
         IN  /\ sessions' = get_session(sessions, session_id)
             /\ resp' = [op |-> "composite", key |-> key,
                         session_id |-> session_id]
    /\ UNCHANGED <<now, ticks, issued, portal_user_sessions, device_sessions,
                   composite_key_sessions, sshVars, lock, pending, bridges,
                   removeRets>>
    /\ UNCHANGED <<terminated, openVars, brVars, protoVars>>

(* the registry under connect, lookup by key, terminate and the reaper *)
NextRegistry ==
    \/ Tick
    \/ ConnectRepeat
    \/ GetByCompositeKey
    \/ SessionTerminate
    \/ TerminateReturn
    \/ RemoveTake
    \/ RemoveFinish
    \/ ReaperTick
    \/ ReaperReturn
    \/ Respond

SpecRegistry == Init /\ [][NextRegistry]_vars

-----------------------------------------------------------------------------
(* A session, its websocket bridges and the other callers of the registry
   together (main.rs 314-422).  The first upgrade's bridge is followed step
   by step; a further bridge of the same session is followed from its end.
   flags holds the cell all clones of a session share with the registry's
   SSHSession (ssh/session.rs 49). *)

MaxUpgrades == 2      \* websocket upgrades explored with a bridge in detail
MaxTraffic  == 1      \* client frames, and chunks of SSH output, on that bridge

(* ws_handler (main.rs 314-339), for a first and for a further upgrade *)
WsHandlerAgain ==
    /\ NoOutput
    /\ WsHandlerWithin(MaxUpgrades)
    /\ UNCHANGED <<terminated, openVars, brVars, protoVars>>

(* main.rs 366-406: handle_socket of the first upgrade makes the queues,
   spawns start_io on the clone and calls handle() *)
HandleSocket ==
    /\ bridges # <<>>
    /\ bridges[1].state = "running"
    /\ b_pc = "idle"
    /\ bridges' = [bridges EXCEPT ![1].state = "bridging"]
    /\ b_pc' = "running"
    /\ io' = "check"
    /\ rx_task' = "running"
    /\ tx_task' = "running"
    /\ UNCHANGED <<now, ticks, issued, regVars, sshVars, lock, pending, resp,
                   removeRets, terminated>>
    /\ UNCHANGED <<flags, client, ssh_input, resize, ssh_output, ws_msg, recvd,
                   written, resized, read_log, sent, close_count, last_close,
                   saw>>
    /\ UNCHANGED <<openVars, protoVars>>

(* main.rs 406-409: handle() of the first upgrade has returned; start_io may
   still be in its loop *)
HandleSocketEnds ==
    /\ bridges # <<>>
    /\ bridges[1].state = "bridging"
    /\ b_pc = "returned"
    /\ bridges' = [bridges EXCEPT ![1].state = "ended"]
    /\ b_pc' = "cleanup"
    /\ UNCHANGED <<now, ticks, issued, regVars, sshVars, lock, pending, resp,
                   removeRets, terminated>>
    /\ UNCHANGED <<flags, io, rx_task, tx_task, client, ssh_input, resize,
                   ssh_output, ws_msg, recvd, written, resized, read_log, sent,
                   close_count, last_close, saw>>
    /\ UNCHANGED <<openVars, protoVars>>

(* handle() of a further upgrade returns *)
OtherBridgeEnds ==
    /\ NoOutput
    /\ \E b \in 2..Len(bridges) :
         /\ bridges[b].state = "running"
         /\ bridges' = [bridges EXCEPT ![b].state = "ended"]
    /\ UNCHANGED <<now, ticks, issued, regVars, sshVars, lock, pending, resp,
                   removeRets>>
    /\ UNCHANGED <<terminated, openVars, brVars, protoVars>>

(* session.rs 159-162 with ssh/session.rs 64: the first step of
   remove_session; the flag close() stores is the one the clones read *)
RemoveTakeShared ==
    /\ NoOutput
    /\ remove_session_take
    /\ flags' = IF bridges # <<>> /\ shutdown_flag'[bridges[1].shutdown_flag]
                THEN store_true(OrigCell)
                ELSE flags
    /\ close_count' = IF shutdown_flag' # shutdown_flag
                      THEN close_count + 1 ELSE close_count
    /\ UNCHANGED <<b_pc, io, rx_task, tx_task, client, ssh_input, resize,
                   ssh_output, ws_msg, recvd, written, resized, read_log, sent,
                   last_close, saw>>
    /\ UNCHANGED <<terminated, openVars, protoVars>>

(* the client's frames and the SSH server's output on the bridge *)
ClientInput ==
    /\ Len(recvd) < MaxTraffic
    /\ RecvInput

ClientResize ==
    /\ Len(recvd) < MaxTraffic
    /\ RecvResize

ClientPing ==
    /\ Len(recvd) < MaxTraffic
    /\ RecvPing

SshOutput ==
    /\ Len(read_log) < MaxTraffic
    /\ IoRead

(* a bridge that carries traffic, the registry's lookups and the reaper *)
NextTraffic ==
    \/ Tick
    \/ Connect
    \/ SessionStatusSingle
    \/ WsHandler
    \/ WsUpgrade
    \/ ReaperTick
    \/ ReaperReturn
    \/ RemoveTakeShared
    \/ RemoveFinish
    \/ Respond
    \/ HandleSocket
    \/ ClientInput
    \/ ClientResize
    \/ ClientPing
    \/ SenderForward
    \/ Forward
    \/ IoCheck
    \/ SshOutput
    \/ IoReadNothing
    \/ IoWrite
    \/ IoInputEmpty

SpecTraffic == Init /\ [][NextTraffic]_vars

(* two bridges of one session, terminate, the reaper and the bridges' own
   cleanup *)
NextShared ==
    \/ Tick
    \/ Connect
    \/ ReaperTick
    \/ ReaperReturn
    \/ SessionTerminate
    \/ TerminateReturn
    \/ WsHandlerAgain
    \/ WsUpgrade
    \/ OtherBridgeEnds
    \/ BridgeCleanup
    \/ BridgeReturn
    \/ RemoveTakeShared
    \/ RemoveFinish
    \/ Respond
    \/ HandleSocket
    \/ RecvDisconnect
    \/ SenderForward
    \/ SenderEnds
    \/ Forward
    \/ ForwardEnds
    \/ HandleReturns
    \/ HandleSocketEnds
    \/ IoCheck
    \/ SshOutput
    \/ IoReadNothing
    \/ IoInputEmpty

SpecShared == Init /\ [][NextShared]_vars

-----------------------------------------------------------------------------
(* Resize commands whose resize_pty fails (websocket.rs 109-135,
   ssh/session.rs 446-465, 523-531) *)

(* ssh/session.rs 455: request_pty_size(..)? gives Ok or the channel's error *)
resize_pty_returns(rows, cols, r) ==
    [ret |-> IF r = "ok" THEN "Ok" ELSE "Err"] @@ resize_pty(rows, cols)

(* a drain that gives up the loop at the first resize_pty that fails *)
after_drain_stops(rets) ==
    IF \E i \in DOMAIN rets : rets[i] = "error" THEN "failed" ELSE "read"

(* ssh/session.rs 526-528: an Err of resize_pty is logged, and the loop goes
   on to the read *)
after_drain(rets) == "read"

(* ssh/session.rs 506-531: the flag check, then the drain of the resize
   queue, each resize_pty with its outcome *)
IoCheckResize ==
    /\ io = "check"
    /\ IF flags[CloneCell]
       THEN /\ io' = "done"
            /\ IoDropsQueues
            /\ UNCHANGED resized
       ELSE \E rets \in [1..Len(resize) -> Outcomes] :
              /\ resized' = resized \o
                     [i \in 1..Len(resize) |->
                         resize_pty_returns(resize[i][1], resize[i][2], rets[i])]
              /\ io' = after_drain(rets)
              /\ IF io' = "read"
                 THEN resize' = <<>> /\ UNCHANGED ssh_input
                 ELSE IoDropsQueues
    /\ UNCHANGED <<b_pc, flags, rx_task, tx_task, client, ssh_output, ws_msg,
                   recvd, written, read_log, sent, close_count, last_close,
                   saw>>
    /\ UNCHANGED <<srvVars, openVars, protoVars>>

(* the bridge of a client that sends resize commands, while start_io runs
   and after it has returned *)
NextResize ==
    \/ BridgeStart
    \/ RecvResize
    \/ IoCheckResize
    \/ IoReadNothing
    \/ IoReadFails
    \/ IoInputEmpty
    \/ SenderForward

SpecResize == Init /\ [][NextResize]_vars

-----------------------------------------------------------------------------
(* Properties of the registry *)

Issued == 1..Len(issued)

(* a remove_session call is between its primary removal and its return *)
MidRemove == pending.cur # <<>>

(* session n is gone from the four indices and its SSH handle is closed *)
RemovedClean(n) ==
    /\ shutdown_flag[n]
    /\ closed[n]
    /\ issued[n] \notin DOMAIN sessions
    /\ \A k \in DOMAIN portal_user_sessions :
          issued[n] \notin portal_user_sessions[k]
    /\ \A k \in DOMAIN device_sessions : issued[n] \notin device_sessions[k]
    /\ \A k \in DOMAIN composite_key_sessions :
          composite_key_sessions[k] # issued[n]

(* C1: whenever no remove_session call is in its middle, every id held by  *)
(* the portal, device and composite indices is a key of the primary map,   *)
(* and no portal or device bucket is empty.                                *)
C1_IndicesSound ==
    ~MidRemove =>
       /\ \A k \in DOMAIN portal_user_sessions :
             /\ portal_user_sessions[k] # {}
             /\ portal_user_sessions[k] \subseteq DOMAIN sessions
       /\ \A k \in DOMAIN device_sessions :
             /\ device_sessions[k] # {}
             /\ device_sessions[k] \subseteq DOMAIN sessions
       /\ \A k \in DOMAIN composite_key_sessions :
             composite_key_sessions[k] \in DOMAIN sessions

(* a cleanup removed a session and took the last id out of its buckets *)
C1_Witness ==
    /\ resp.op = "reaper"
    /\ resp.count >= 1
    /\ Len(issued) >= 1
    /\ DOMAIN portal_user_sessions = {}
    /\ DOMAIN device_sessions = {}

(* C2: a remove_session that returned true has set the shutdown flag,      *)
(* closed the SSH handle and taken the id out of all four indices; a       *)
(* registry where only part of that has happened exists only while the     *)
(* remover holds the lock in the middle of the call, and until the call    *)
(* finishes no step reads or writes the registry or the lock, and the only *)
(* response that can be produced is that of a connect whose Open failed.   *)
C2_RemoveCloseAtomic ==
    /\ [](\A n \in Issued :
            (\E i \in 1..Len(removeRets[n]) : removeRets[n][i])
               => RemovedClean(n))
    /\ []((\E n \in Issued :
             issued[n] \notin DOMAIN sessions /\ ~RemovedClean(n))
            => (lock \in Removers /\ MidRemove))
    /\ [][MidRemove =>
            \/ /\ ~MidRemove'
               /\ \A n \in Issued :
                     issued[n] \notin DOMAIN sessions' => RemovedClean(n)'
               /\ UNCHANGED <<sessions, lock, resp>>
            \/ /\ UNCHANGED <<issued, regVars, sshVars, lock, pending,
                               removeRets, terminated>>
               /\ \/ resp' \in {resp, NoResp}
                  \/ resp'.op = "connect" /\ ~resp'.success]_vars

(* remove_session has just returned true to a caller that holds the lock *)
C2_Witness ==
    /\ lock \in Removers
    /\ ~MidRemove
    /\ pending.ret
    /\ \E n \in Issued : removeRets[n] = <<TRUE>> /\ RemovedClean(n)

(* C3: of the remove_session calls made for one id the first returns true  *)
(* and every later one returns false, and a call that returns false leaves *)
(* the registry and the SSH handles as they were.                          *)
C3_RemoveIdempotent ==
    /\ [](\A n \in Issued :
            \A i \in 1..Len(removeRets[n]) : removeRets[n][i] <=> (i = 1))
    /\ [][(\E n \in Issued :
             /\ Len(removeRets'[n]) = Len(removeRets[n]) + 1
             /\ ~removeRets'[n][Len(removeRets'[n])])
            => UNCHANGED <<regVars, sshVars>>]_vars

(* a second remove_session for the same id has returned false *)
C3_Witness == \E n \in Issued : removeRets[n] = <<TRUE, FALSE>>

(* C4: cleanup_stale_sessions(max_idle_time) removes exactly the sessions  *)
(* whose idle time at the call is strictly greater than max_idle_time,     *)
(* has closed each of them, leaves every other session as it was and       *)
(* returns the number it removed.                                          *)
C4_CleanupExact ==
    [][(lock = "reaper" /\ lock' = "free") =>
          LET called == pending.before[1]
              before == pending.before[2]
              max_idle_time == pending.arg[1]
              Stale == {id \in DOMAIN before :
                          called - before[id].last_activity > max_idle_time}
          IN  /\ DOMAIN sessions' = (DOMAIN before) \ Stale
              /\ \A id \in DOMAIN sessions' : sessions'[id] = before[id]
              /\ \A id \in Stale : RemovedClean(IndexOf(id))'
              /\ resp'.op = "reaper"
              /\ resp'.count = Cardinality(Stale)]_vars

(* one session idle for max_idle_time + 1 seconds was removed, and the     *)
(* call is about to return 1                                               *)
C4_Witness ==
    /\ lock = "reaper"
    /\ pending.todo = <<>>
    /\ pending.count = 1
    /\ DOMAIN pending.before[2] # {}
    /\ \A id \in DOMAIN pending.before[2] :
          /\ pending.before[1] - pending.before[2][id].last_activity
                = pending.arg[1] + 1
          /\ RemovedClean(IndexOf(id))

(* C5: a session's last_activity never decreases; the status request for an *)
(* id in the registry leaves that session's last_activity at the time of    *)
(* the request, and the one for an id not in the registry changes nothing   *)
(* in the registry.                                                         *)
C5_GetSessionStamps ==
    /\ [][\A id \in DOMAIN sessions \cap DOMAIN sessions' :
             sessions'[id].last_activity >= sessions[id].last_activity]_vars
    /\ [][(resp = NoResp /\ resp'.op = "status") =>
             IF resp'.session_id \in DOMAIN sessions
             THEN /\ resp'.exists
                  /\ sessions'[resp'.session_id].last_activity = now
                  /\ \A id \in DOMAIN sessions \ {resp'.session_id} :
                        sessions'[id] = sessions[id]
                  /\ DOMAIN sessions' = DOMAIN sessions
             ELSE /\ ~resp'.exists
                  /\ UNCHANGED regVars]_vars

(* a status request found a session created at an earlier time *)
C5_Witness ==
    /\ resp.op = "status"
    /\ resp.exists
    /\ now > 0
    /\ sessions[resp.session_id].last_activity = now

(* C6: the three totals the cleanup task logs are the numbers of keys of   *)
(* the primary map, of the portal-user index and of the device index.      *)
C6_TotalsAreMapSizes ==
    resp.op = "reaper" =>
       /\ resp.total_sessions = Cardinality(DOMAIN sessions)
       /\ resp.total_portal_users = Cardinality(DOMAIN portal_user_sessions)
       /\ resp.total_devices = Cardinality(DOMAIN device_sessions)

(* totals were logged after a session had been removed *)
C6_Witness ==
    /\ resp.op = "reaper"
    /\ resp.total_sessions < Len(issued)
    /\ resp.total_portal_users = Cardinality(DOMAIN portal_user_sessions)

(* C7: a connect answers success exactly when Open succeeded, and then the *)
(* session id it returns is a key of the registry; a failed Open is        *)
(* answered with success=false and an error code and adds nothing; and a   *)
(* key enters the primary map only in the step of a successful connect,    *)
(* as the id that connect returns.                                         *)
C7_ConnectAddsAfterOpen ==
    /\ [](resp.op = "connect" =>
            /\ resp.success <=> resp.open
            /\ resp.success =>
                  (resp.session_id \in DOMAIN sessions /\ resp.error_code = "")
            /\ ~resp.success =>
                  /\ resp.session_id = None
                  /\ resp.error_code \in
                        {"AUTH_FAILED", "CONNECTION_FAILED", "UNKNOWN_ERROR"})
    /\ [][~(DOMAIN sessions' \subseteq DOMAIN sessions) =>
            /\ resp'.op = "connect"
            /\ resp'.success
            /\ resp'.session_id \notin DOMAIN sessions
            /\ DOMAIN sessions' = DOMAIN sessions \cup {resp'.session_id}]_vars
    /\ [][(resp = NoResp /\ resp'.op = "connect" /\ ~resp'.success) =>
            UNCHANGED <<issued, regVars, sshVars>>]_vars

(* a connect whose Open failed is answered while the registry holds the    *)
(* session of an earlier, successful connect                               *)
C7_Witness ==
    /\ resp.op = "connect"
    /\ ~resp.success
    /\ resp.error_code = "AUTH_FAILED"
    /\ Len(issued) = 1
    /\ DOMAIN sessions = {issued[1]}

(* C8: a terminate answered with success=true was for a session the        *)
(* registry had issued, and that session is gone from the registry with    *)
(* its SSH handle closed; from then on a status request for it answers     *)
(* exists=false, ready=false and a websocket request for it answers 404    *)
(* session_not_found; a terminate answered with success=false was for an   *)
(* id not in the registry and left the registry and the handles unchanged. *)
C8_TerminateRemoves ==
    /\ [](resp.op = "terminate" =>
            IF resp.success
            THEN /\ IndexOf(resp.session_id) > 0
                 /\ RemovedClean(IndexOf(resp.session_id))
                 /\ resp.session_id \in terminated
            ELSE resp.session_id \notin DOMAIN sessions)
    /\ [](\A id \in terminated :
            /\ id \notin DOMAIN sessions
            /\ (resp.op = "status" /\ resp.session_id = id)
                  => (~resp.exists /\ ~resp.ready)
            /\ (resp.op = "ws" /\ resp.session_id = id)
                  => (resp.status = 404 /\ resp.error = "session_not_found"))
    /\ [][(resp = NoResp /\ resp'.op = "terminate" /\ ~resp'.success) =>
            /\ resp'.session_id \notin DOMAIN sessions
            /\ UNCHANGED <<regVars, sshVars>>]_vars

(* a websocket request for a terminated session is answered 404 *)
C8_Witness ==
    /\ resp.op = "ws"
    /\ resp.session_id \in terminated
    /\ resp.status = 404

(* the URL is some whitespace around an id of the registry *)
PaddedLive(path) ==
    \E id \in DOMAIN sessions, l \in Pads, r \in Pads : path = l \o id \o r

(* C9: a websocket request is answered 404 session_not_found exactly when  *)
(* its URL, whitespace around it apart, is not an id of the registry; that *)
(* answer starts no bridge, dials no SSH connection and leaves the         *)
(* registry unchanged.                                                     *)
C9_WsMissIs404 ==
    /\ [][(resp = NoResp /\ resp'.op = "ws" /\ resp'.status = 404) =>
            /\ resp'.error = "session_not_found"
            /\ ~PaddedLive(resp'.path)
            /\ UNCHANGED <<issued, regVars, sshVars, bridges, lock,
                           pending>>]_vars
    /\ [][(lock = "free" /\ lock' = "ws") =>
            /\ PaddedLive(pending'.before)
            /\ pending'.arg \in DOMAIN sessions]_vars

(* a padded URL of an unknown id is answered 404 while the registry holds  *)
(* a session                                                               *)
C9_Witness ==
    /\ resp.op = "ws"
    /\ resp.status = 404
    /\ resp.path # resp.session_id
    /\ resp.session_id = UnknownId
    /\ DOMAIN sessions # {}
    /\ bridges = <<>>

-----------------------------------------------------------------------------
(* Properties of SSHSession::new *)

(* the handshake calls of the handshake loop: those logged before any      *)
(* authentication call                                                     *)
LoopHandshakes ==
    {i \in 1..Len(o_log) :
        /\ o_log[i].call = "handshake"
        /\ \A j \in 1..i : o_log[j].call \notin
              {"userauth_password", "userauth_pubkey"}}

(* C10: new makes at most 3 handshake attempts when the failures are       *)
(* banner-class: after a third consecutive banner-class failure it returns *)
(* the handshake error without a further attempt.                          *)
C10_AtMostThreeHandshakes ==
    /\ Cardinality(LoopHandshakes) <= 3
    /\ (/\ Cardinality(LoopHandshakes) = 3
        /\ \A i \in LoopHandshakes : o_log[i].result = "banner")
          => o_result = "HandshakeError"

(* the handshake failed twice with a banner-class error, succeeded the     *)
(* third time, and new returned a session                                  *)
C10_Witness ==
    /\ o_result = "Ok"
    /\ Cardinality(LoopHandshakes) = 3
    /\ \E i \in LoopHandshakes :
          /\ o_log[i].result = "ok"
          /\ \A j \in LoopHandshakes \ {i} :
                j < i /\ o_log[j].result = "banner"

(* the entries of o_log whose call is one of calls, in order *)
LogOf(calls) == SelectSeq(o_log, LAMBDA x : x.call \in calls)

(* C11: userauth_password is called at most 3 times; a failure that is not *)
(* of the "waiting for password response" class is the last call new makes *)
(* and new returns the authentication error.                               *)
C11_PasswordRetryOnlyOnWaiting ==
    /\ Len(LogOf({"userauth_password"})) <= 3
    /\ \A i \in 1..Len(o_log) :
          (o_log[i].call = "userauth_password" /\ o_log[i].result = "error")
             => (i = Len(o_log) /\ o_result = "AuthenticationError")

(* a failure of the waiting class was followed by a new transport, a       *)
(* handshake and a second call that succeeded                              *)
C11_Witness ==
    /\ o_result = "Ok"
    /\ \E i \in 1..Len(o_log) :
          /\ o_log[i] = Logged("userauth_password", "waiting")
          /\ i + 3 <= Len(o_log)
          /\ o_log[i + 1] = Logged("dial", "ok")
          /\ o_log[i + 2] = Logged("handshake", "ok")
          /\ o_log[i + 3] = Logged("userauth_password", "ok")

(* the channel setups new has called *)
Rungs == LogOf({"standard", "linux", "cisco"})

(* the hint names a network device, whatever its case *)
NetworkHint ==
    o_in.hint \in {"cisco", "Cisco", "CISCO", "router", "Router", "switch",
                   "Switch"}

IsPrefix(q, r) == Len(q) <= Len(r) /\ \A i \in 1..Len(q) : q[i] = r[i]

(* C12: without a network-device hint the channel setups are called in the *)
(* order standard, linux, cisco, none is called after one that succeeded,  *)
(* and an error is returned only when all three failed, the error of the   *)
(* cisco setup; with hint cisco, router or switch, in any case, only the   *)
(* cisco setup is called.                                                  *)
C12_SetupLadder ==
    LET calls == [i \in 1..Len(Rungs) |-> Rungs[i].call]
        order == IF NetworkHint THEN <<"cisco">>
                 ELSE <<"standard", "linux", "cisco">>
    IN  /\ IsPrefix(calls, order)
        /\ \A i \in 1..Len(Rungs) :
              Rungs[i].result = "ok" =>
                 (i = Len(Rungs) /\ o_result = "Ok")
        /\ o_result = "Ok" =>
              (Rungs # <<>> /\ Rungs[Len(Rungs)].result = "ok")
        /\ (Rungs # <<>> /\ o_result \notin {"none", "Ok"}) =>
              /\ calls = order
              /\ \A i \in 1..Len(Rungs) : Rungs[i].result = "error"
              /\ o_result = "ChannelError(cisco)"

(* with the hint linux the standard and linux setups failed and the cisco  *)
(* setup gave the channel                                                  *)
C12_Witness ==
    /\ o_in.hint = "linux"
    /\ o_result = "Ok"
    /\ Rungs = <<Logged("standard", "error"), Logged("linux", "error"),
                 Logged("cisco", "ok")>>

-----------------------------------------------------------------------------
(* Properties of the bridge *)

(* the payloads of the input commands the receiver task queued *)
Accepted ==
    LET ins == SelectSeq(recvd, LAMBDA f : f.type = "input" /\ f.ok)
    IN  [i \in 1..Len(ins) |-> ins[i].data]

AllCalls == <<"channel.close", "channel.send_eof", "session.disconnect">>

(* C13: the clone reads and writes the flag of the original: once close()
   has run on the original the clone's flag is set, a flag set by the
   clone's loop is seen through the original, and the next flag check of
   start_io on the clone leaves the loop *)
C13_CloneSharesFlag ==
    /\ [](close_count > 0 => flags[CloneCell])
    /\ [](flags[CloneCell] => flags[OrigCell])
    /\ [][(close_count > 0 /\ io = "check" /\ io' # io) => io' = "done"]_vars

C13_Witness ==
    /\ close_count > 0
    /\ io = "done"
    /\ written # <<>>
    /\ b_pc = "running"

(* C14: every call of close(), the second one and one made while start_io
   runs on the clone included, sets the flag, makes all three calls
   whatever the earlier ones returned, and returns Ok *)
C14_CloseIdempotent ==
    [][close_count' # close_count =>
          /\ flags'[OrigCell]
          /\ last_close'.calls = AllCalls
          /\ last_close'.ret = "Ok"]_vars

C14_Witness ==
    /\ close_count = 2
    /\ IoAlive
    /\ last_close.ret = "Ok"

(* C15: while start_io runs and the channel has not been found closed,
   the chunks the receiver queued are those written to the channel, in
   order, followed by those still queued *)
C15_InputExactlyOnce ==
    (IoAlive /\ ~flags[CloneCell]) => Accepted = written \o ssh_input

C15_Witness ==
    /\ io = "check"
    /\ ~flags[CloneCell]
    /\ Len(Accepted) = 2
    /\ Len(written) = 1
    /\ ssh_input = <<>>

(* the payloads of the binary frames of a sequence of frames *)
BinaryPayloads(q) ==
    LET bs == SelectSeq(q, LAMBDA f : f.type = "binary")
    IN  [i \in 1..Len(bs) |-> bs[i].data]

(* the frames of one type of a sequence of frames *)
FramesOf(type, q) == SelectSeq(q, LAMBDA f : f.type = type)

(* everything queued for the client so far, in the order it was queued *)
Outbound == sent \o ws_msg

(* the SSH output on its way to the client, oldest first *)
Pipeline == BinaryPayloads(Outbound) \o ssh_output

WithoutFarewell(s) ==
    IF s # <<>> /\ s[Len(s)] = Farewell THEN SubSeq(s, 1, Len(s) - 1) ELSE s

(* C16: while the client is connected, the binary frames sent and queued
   and the chunks still on the output queue are exactly the chunks read
   from the SSH channel, one frame per chunk, with the bytes read, in the
   order read (the farewell of start_io at EOF comes after them) *)
C16_OutputVerbatimInOrder ==
    client = "open" => WithoutFarewell(Pipeline) = read_log

C16_Witness ==
    /\ client = "open"
    /\ Len(read_log) = 2
    /\ read_log[1] # read_log[2]
    /\ read_log[2] = <<"ESC", "[", "H">>
    /\ BinaryPayloads(sent) = read_log

(* the resize commands the receiver task queued, as (rows, cols) clamped
   to 24 rows and 80 columns *)
AcceptedResizes ==
    LET rs == SelectSeq(recvd, LAMBDA f : f.type = "resize" /\ f.ok)
    IN  [i \in 1..Len(rs) |->
            <<IF rs[i].data.rows < 24 THEN 24 ELSE rs[i].data.rows,
              IF rs[i].data.cols < 80 THEN 80 ELSE rs[i].data.cols>>]

(* the arguments of the resize_pty calls made *)
ResizedArgs == [i \in 1..Len(resized) |-> <<resized[i].rows, resized[i].cols>>]

(* C17: the resize_pty calls are made with the clamped (rows, cols) of the
   accepted resize commands, in the order received, each once: while
   start_io runs, the calls made followed by the commands still queued are
   the accepted ones; each call requests cols x rows of its arguments; and
   while the client is connected the info frames are those of the accepted
   commands with the clamped dimensions *)
C17_ResizeClampedFifo ==
    /\ IsPrefix(ResizedArgs, AcceptedResizes)
    /\ IoAlive => ResizedArgs \o resize = AcceptedResizes
    /\ \A i \in 1..Len(resized) :
          resized[i].request = <<resized[i].cols, resized[i].rows>>
    /\ client = "open" =>
          FramesOf("info", Outbound) =
              [i \in 1..Len(AcceptedResizes) |->
                  [type |-> "info",
                   message |-> <<"Terminal resized to ", AcceptedResizes[i][2],
                                 "x", AcceptedResizes[i][1]>>]]

C17_Witness ==
    /\ ResizedArgs = <<<<24, 100>>, <<30, 80>>>>
    /\ Len(FramesOf("info", sent)) = 2
    /\ client = "open"

(* C18: while the client is connected there is one pong, sent or queued,
   for each ping received, and what is queued for the client only grows at
   its end: a frame queued after a pong is sent after it *)
C18_OnePongInOrder ==
    /\ [](client = "open" =>
            Len(FramesOf("pong", Outbound)) = Len(FramesOf("ping", recvd)))
    /\ [][client' = "open" => IsPrefix(Outbound, Outbound')]_vars
    /\ [][sent' # sent => sent' = Append(sent, Head(ws_msg))]_vars

C18_Witness ==
    /\ Len(sent) = 3
    /\ sent[1].type = "binary"
    /\ sent[2] = Pong
    /\ sent[3].type = "binary"
    /\ client = "open"

(* the program steps other than a pass of start_io's loop that finds
   nothing to do *)
Work ==
    \/ SenderForward
    \/ SenderEnds
    \/ Forward
    \/ ForwardRefresh
    \/ ForwardEnds
    \/ HandleReturns
    \/ BridgeRemove
    \/ IoWrite

(* nothing is left for the program to do by itself: start_io, if it runs,
   only polls *)
Settled ==
    /\ ~ENABLED Work
    /\ IoAlive => (resize = <<>> /\ ~flags[CloneCell])

FarewellSent == \E i \in 1..Len(sent) : sent[i] = Binary(Farewell)

(* the EOF branch of start_io has run: it stores the flag, and its
   farewell is the last chunk of output *)
EofFlagAndFarewell ==
    (\E i \in 1..Len(Pipeline) : Pipeline[i] = Farewell) =>
        /\ flags[CloneCell]
        /\ Pipeline[Len(Pipeline)] = Farewell
        /\ ~IoAlive

(* C19: after EOF the flag is set and the farewell is the last binary
   frame; once it is sent and the program has nothing left to do without
   the client, handle() has returned *)
C19_EofEndsBridge ==
    /\ EofFlagAndFarewell
    /\ (FarewellSent /\ client = "open" /\ Settled) =>
           b_pc \in {"returned", "removed"}

C19_Witness ==
    /\ FarewellSent
    /\ BinaryPayloads(sent)[Len(BinaryPayloads(sent))] = Farewell
    /\ Len(BinaryPayloads(sent)) = 2
    /\ flags[CloneCell]
    /\ client = "open"
    /\ b_pc = "joining"

(* C20: once the client is gone and the program has nothing left to do by
   itself, handle() has returned, start_io has returned and remove_session
   has been called *)
C20_DisconnectEndsBridge ==
    (client = "gone" /\ Settled) => (b_pc = "removed" /\ ~IoAlive)

C20_Witness ==
    /\ client = "gone"
    /\ b_pc = "removed"
    /\ ~IoAlive
    /\ close_count = 1
    /\ recvd # <<>>

(* both handles of the shared flag read true *)
ShutdownSet == flags[OrigCell] /\ flags[CloneCell]

(* C29: the shutdown flag is set once close() has been called (explicit
   Close, or remove_session), by the step of start_io that detects EOF, and
   once the client has disconnected and the program has done all it does by
   itself *)
C29_FlagSetOnEachEvent ==
    /\ [](close_count > 0 => ShutdownSet)
    /\ [][(io = "read" /\ io' = "done" /\ read_log' = read_log)
            => ShutdownSet']_vars
    /\ []((client = "gone" /\ Settled) => ShutdownSet)

(* the client is gone, the SSH side has spoken since, and the teardown has
   closed the session: the flag is set *)
C29_Witness ==
    /\ client = "gone"
    /\ ShutdownSet
    /\ close_count = 1
    /\ b_pc = "removed"
    /\ io = "done"
    /\ read_log # <<>>

(* the steps the program can take by itself when the client does nothing *)
Unaided == ProgNext \/ IoSendCompletes

(* C30: once the flag is set, the pass of start_io's loop that evaluates the
   loop head leaves the loop without a resize (and so without keepalive,
   read or write); and when the flag is set and the program can take no
   step by itself, start_io has returned *)
C30_FlagEndsLoop ==
    /\ [][(flags[CloneCell] /\ io = "check" /\ io' # io) =>
              (io' = "done" /\ resized' = resized /\ read_log' = read_log
                 /\ written' = written)]_vars
    /\ []((flags[CloneCell] /\ ~ENABLED Unaided) => ~IoAlive)

(* both queues are full, the client does not read, close() has set the
   flag, and start_io had reached the loop head and left *)
C30_Witness ==
    /\ client = "stalled"
    /\ Len(ssh_output) = OutputCapacity
    /\ Len(ws_msg) = WsMsgCapacity
    /\ close_count = 1
    /\ flags[CloneCell]
    /\ io = "done"

(* start_io has left its loop for another reason than the flag or EOF: with
   an error (read, write, flush), or by a break with the flag unset
   (keepalive failure, ssh_output_rx dropped) *)
FatalExit == io = "failed" \/ (io = "done" /\ ~ShutdownSet)

(* C31: once start_io has left its loop that way and the program has done
   all it does by itself, handle() has returned and remove_session has been
   called *)
C31_FatalExitEndsBridge ==
    (FatalExit /\ Settled) => b_pc = "removed"

(* a write failed after the client had gone: the bridge returned and the
   session was removed and closed *)
C31_Witness ==
    /\ io = "failed"
    /\ recvd # <<>>
    /\ b_pc = "removed"
    /\ close_count = 1
    /\ ShutdownSet

(* C32: a frame of input, text or binary, that could not be queued because
   start_io had returned is the last frame the receiver has processed, the
   receiver task has ended, and the error frame has been queued for the
   client that is still connected *)
C32_EnqueueFailureNotified ==
    \A i \in 1..Len(recvd) :
        (recvd[i].type \in {"input", "binary"} /\ ~recvd[i].ok) =>
            /\ i = Len(recvd)
            /\ rx_task = "ended"
            /\ client = "open" =>
                  \E j \in 1..Len(Outbound) : Outbound[j] = ClosedNotice

(* a text input frame failed: the error frame was the last frame sent, and
   handle() has returned, which closes the transport *)
C32_Witness ==
    /\ recvd # <<>>
    /\ recvd[Len(recvd)].type = "input"
    /\ ~recvd[Len(recvd)].ok
    /\ sent # <<>>
    /\ sent[Len(sent)] = ClosedNotice
    /\ b_pc = "removed"


-----------------------------------------------------------------------------
(* Further properties of SSHSession::new *)

(* the handshake calls that failed with an error that is not of the banner
   class: ssh2 code -13 with a message that has "banner" *)
PlainHandshakeFailures ==
    {i \in 1..Len(o_log) :
        /\ o_log[i].call = "handshake"
        /\ o_log[i].result # "ok"
        /\ ~(/\ o_log[i].error.code = -13
             /\ \E k \in 1..Len(o_log[i].error.message) :
                   o_log[i].error.message[k] = "banner")}

(* C26: a handshake failure that is not banner-class is the last call new
   makes: no dial and no handshake follows it, and new returns the
   handshake error *)
C26_PlainHandshakeFailureEnds ==
    \A i \in PlainHandshakeFailures :
        /\ i = Len(o_log)
        /\ o_pc = "done"
        /\ o_result = "HandshakeError"

(* a banner-class failure was retried, and the failure of the second
   handshake, whose message has "banner" but whose code is not -13, ended
   new *)
C26_Witness ==
    /\ Len(o_log) = 4
    /\ o_log[2].result = "banner"
    /\ o_log[4].call = "handshake"
    /\ o_log[4].result = "error"
    /\ o_log[4].error.code = -2
    /\ o_result = "HandshakeError"


(* new has come to the choice of the authentication method: its last
   handshake succeeded *)
HandshakeDone ==
    LET hs == LogOf({"handshake"})
    IN  hs # <<>> /\ hs[Len(hs)].result = "ok"

(* the private key contains "-----BEGIN" *)
KeyLooksPem ==
    \E i \in 1..Len(o_in.private_key) : o_in.private_key[i] = "-----BEGIN"

(* C27: with a password only userauth_password is called; without one, a
   key that has "-----BEGIN" is the only thing tried and a key that lacks
   it makes new return an authentication error without any authentication
   call; with neither, new returns "No authentication method provided";
   and a new that returns an authentication error has set up no channel *)
C27_AuthMethodPriority ==
    /\ o_in.password # "none" => LogOf({"userauth_pubkey"}) = <<>>
    /\ o_in.password = "none" => LogOf({"userauth_password"}) = <<>>
    /\ (o_in.password = "none" /\ ~KeyLooksPem) =>
          /\ LogOf({"userauth_pubkey"}) = <<>>
          /\ (o_pc = "done" /\ HandshakeDone) =>
                /\ o_result = "AuthenticationError"
                /\ o_message =
                      IF o_in.private_key = <<>>
                      THEN <<"No authentication method provided">>
                      ELSE <<"Unsupported private key format. Please provide a PEM formatted private key">>
    /\ o_result = "AuthenticationError" => Rungs = <<>>

(* a password and a PEM key were given: the password alone was used *)
C27_Witness ==
    /\ o_in.password = "some"
    /\ o_in.private_key = PemKey
    /\ o_result = "Ok"
    /\ LogOf({"userauth_password"}) # <<>>


(* the transport in use at entry i of o_log has completed a handshake: the
   last dial before i is followed, before i, by a handshake that succeeded *)
HandshakeOnTransport(i) ==
    \E h \in 1..(i - 1) :
        /\ o_log[h] = Logged("handshake", "ok")
        /\ \A d \in (h + 1)..(i - 1) : o_log[d].call # "dial"

(* C28: every authentication call is made on a transport whose handshake
   succeeded; every channel setup comes after session.authenticated()
   returned true; and new returns a session only when its last channel
   setup succeeded *)
C28_OpenStepsOrdered ==
    /\ \A i \in 1..Len(o_log) :
          o_log[i].call \in {"userauth_password", "userauth_pubkey"}
             => HandshakeOnTransport(i)
    /\ \A i \in 1..Len(o_log) :
          o_log[i].call \in {"standard", "linux", "cisco"}
             => \E a \in 1..(i - 1) : o_log[a] = Logged("authenticated", TRUE)
    /\ o_result = "Ok" =>
          (Rungs # <<>> /\ Rungs[Len(Rungs)].result = "ok")

(* the second password call was made on a transport made and shaken hands
   with again, and the second channel setup gave the session *)
C28_Witness ==
    /\ o_result = "Ok"
    /\ Len(LogOf({"dial"})) = 2
    /\ Len(LogOf({"userauth_password"})) = 2
    /\ Len(Rungs) = 2

-----------------------------------------------------------------------------
(* Properties of the connect response and of the frames of the client *)

(* the text of the error e of a failed connect: the response's message is
   format!("Failed to connect: {}", e) *)
FailureText(r) == Tail(r.message)

(* C24: the error_code of a failed connect is AUTH_FAILED when the text of
   the failure contains "Authentication", else CONNECTION_FAILED when it
   contains "Connection" or "connect", else UNKNOWN_ERROR; a successful
   connect carries no error_code *)
C24_ErrorCodeByMessage ==
    resp.op = "connect" =>
        IF resp.success
        THEN resp.error_code = ""
        ELSE LET text == FailureText(resp)
                 auth == \E i \in 1..Len(text) : text[i] = "Authentication"
                 conn == \E i \in 1..Len(text) :
                            text[i] \in {"Connection", "connect"}
             IN  /\ auth => resp.error_code = "AUTH_FAILED"
                 /\ (~auth /\ conn) => resp.error_code = "CONNECTION_FAILED"
                 /\ (~auth /\ ~conn) => resp.error_code = "UNKNOWN_ERROR"

(* a failure whose text has both "Authentication" and "Connection" *)
C24_Witness ==
    /\ resp.op = "connect"
    /\ ~resp.success
    /\ FailureText(resp) =
          <<"Authentication", " failed: ", "Connection", " reset">>
    /\ resp.error_code = "AUTH_FAILED"

(* the text is not JSON, or its type is not input, resize or ping *)
NoCommand(text) ==
    \/ ~text.json
    \/ "type" \notin DOMAIN text.object
    \/ text.object.type \notin {"input", "resize", "ping"}

(* C21: a text frame that is not JSON or whose type is none of input,
   resize and ping is dropped: the step that takes it queues nothing for
   the SSH side and nothing for the client and leaves the receiver task
   running, so that the frames after it are taken as usual *)
C21_MalformedDropped ==
    [][(/\ Len(recvd') = Len(recvd) + 1
        /\ "text" \in DOMAIN recvd'[Len(recvd')]
        /\ NoCommand(recvd'[Len(recvd')].text))
          => UNCHANGED <<ssh_input, resize, ws_msg, sent, rx_task, client>>]_vars

(* an input command that came after a text with an unknown type was
   written to the SSH channel *)
C21_Witness ==
    /\ Len(recvd) = 2
    /\ recvd[1].type = "malformed"
    /\ recvd[1].text = JsonObject([type |-> "pong"])
    /\ recvd[2].type = "input"
    /\ written = <<recvd[2].data>>
    /\ rx_task = "running"

-----------------------------------------------------------------------------
(* Properties of the refresh notification *)

(* the bytes seq occur in data, one after the other *)
HasSeq(data, seq) ==
    \E i \in 1..(Len(data) - Len(seq) + 1) :
        SubSeq(data, i, i + Len(seq) - 1) = seq

ClearScreen == <<"ESC", "[", "2", "J">>

CursorHome == <<"ESC", "[", "H">>

(* the binary frame at place p of what was queued for the client carries, or
   comes after, a chunk that has ESC[2J *)
ClearedBy(p) ==
    \E q \in 1..p :
        /\ Outbound[q].type = "binary"
        /\ HasSeq(Outbound[q].data, ClearScreen)

(* C22: a binary frame that carries a chunk with ESC[2J, and every binary
   frame after it, is followed by a refresh frame with fullscreen = true
   (for the frame queued last, the forwarder is about to queue it) *)
C22_ClearScreenLatches ==
    \A p \in 1..Len(Outbound) :
        (Outbound[p].type = "binary" /\ ClearedBy(p)) =>
            IF p < Len(Outbound)
            THEN Outbound[p + 1] = [type |-> "refresh", fullscreen |-> TRUE]
            ELSE b_pc = "refresh"

(* a chunk that has ESC[2J and ESC[H was followed by the refresh frame,
   and so was the chunk of text after it *)
C22_Witness ==
    /\ Len(sent) = 4
    /\ sent[1] = Binary(<<"x", "ESC", "[", "2", "J", "ESC", "[", "H">>)
    /\ sent[2] = [type |-> "refresh", fullscreen |-> TRUE]
    /\ sent[3] = Binary(<<"x">>)
    /\ sent[4] = [type |-> "refresh", fullscreen |-> TRUE]

(* C23: while no chunk read has had ESC[H or ESC[2J, no refresh frame has
   been queued for the client *)
C23_NoRefreshWithoutSequences ==
    (\A i \in 1..Len(read_log) :
        ~HasSeq(read_log[i], CursorHome) /\ ~HasSeq(read_log[i], ClearScreen))
      => FramesOf("refresh", Outbound) = <<>>

(* two chunks of text were sent without a refresh frame *)
C23_Witness ==
    /\ read_log = <<<<"x">>, <<"x">>>>
    /\ sent = <<Binary(<<"x">>), Binary(<<"x">>)>>
    /\ b_pc = "running"

-----------------------------------------------------------------------------
(* Properties of the binary message protocol *)

(* C25: what from_binary gives for the bytes of to_binary is Ok of the
   message that was encoded, with first byte 1 (gzipped) or 0 (plain); and
   from_binary of no bytes is an error *)
C25_BinaryRoundTrip ==
    /\ p_pc = "decoded" =>
         /\ p_binary[1] \in {0, 1}
         /\ p_decoded.ok
         /\ p_decoded.message = p_message
    /\ p_pc = "rejected" => ~p_decoded.ok

(* a large message went through the gzipped encoding and came back *)
C25_Witness ==
    /\ p_pc = "decoded"
    /\ p_binary[1] = 1
    /\ p_message.type = "TerminalOutput"
    /\ Len(p_message.data) = 2000
    /\ p_decoded.ok
    /\ Len(p_binary) < Len(p_message.data)


-----------------------------------------------------------------------------
(* Properties of the registry's lock and of its indices *)

(* a step that adds, removes, stamps and closes no session and gives the
   guard to nobody *)
RegistryUntouched ==
    /\ regVars' = regVars
    /\ sshVars' = sshVars
    /\ issued' = issued
    /\ lock' \in {lock, "free"}

(* a step that adds no session and changes no session that stays *)
OnlyRemoves ==
    /\ issued' = issued
    /\ \A id \in DOMAIN sessions' :
          id \in DOMAIN sessions /\ sessions'[id] = sessions[id]

(* C33: while ws_handler holds the guard, between its lookup and the end of
   the clone, no step adds, removes, stamps or closes a session and the
   guard goes to nobody else; a guard is never passed from one holder to
   another without a release; and while a remover holds it no session is
   added and no session that stays is changed *)
C33_RegistryExclusive ==
    /\ [][lock = "ws" => RegistryUntouched]_vars
    /\ [][(lock # "free" /\ lock' # "free") => lock' = lock]_vars
    /\ [][(lock \in Removers) => OnlyRemoves]_vars

(* the clone is still dialling while the clock has moved on since the
   lookup: the reaper and every request wait *)
C33_Witness ==
    /\ lock = "ws"
    /\ pending.arg \in DOMAIN sessions
    /\ now > sessions[pending.arg].last_activity

(* the live sessions that have the composite key key *)
LiveWith(key) == {id \in DOMAIN sessions : CompositeKey(sessions[id]) = key}

(* C34: a lookup by composite key that was made while a live session had
   that key returned the id of a live session with that key *)
C34_CompositeLookupFinds ==
    (resp.op = "composite" /\ LiveWith(resp.key) # {}) =>
        resp.session_id \in LiveWith(resp.key)

(* two live sessions have the same key, and the lookup gave one of them *)
C34_Witness ==
    /\ resp.op = "composite"
    /\ Cardinality(LiveWith(resp.key)) = 2
    /\ resp.session_id \in LiveWith(resp.key)

(* the portal users and the devices a caller may ask for: those of the
   connect requests, and one of each that never connects *)
AskedUsers == {request[1] : request \in ConnectRequests} \cup {"u2"}

AskedDevices == {request[2] : request \in ConnectRequests} \cup {"d3"}

(* C35: whenever no remove_session call is in its middle, the portal and    *)
(* device indices are complete as well as sound: get_portal_user_sessions   *)
(* and get_device_sessions return exactly the live sessions of the user or  *)
(* device asked for, and no index keeps an empty bucket.                    *)
C35_IndicesExact ==
    ~MidRemove =>
        /\ \A u \in AskedUsers :
              get_portal_user_sessions(u) =
                  {id \in DOMAIN sessions : sessions[id].portal_user_id = u}
        /\ \A d \in AskedDevices :
              get_device_sessions(d) =
                  {id \in DOMAIN sessions : sessions[id].device_id = d}
        /\ \A u \in DOMAIN portal_user_sessions : portal_user_sessions[u] # {}
        /\ \A d \in DOMAIN device_sessions : device_sessions[d] # {}

(* two sessions of one user and one device were added, one of them has been
   removed, and the user's bucket holds the other *)
C35_Witness ==
    /\ ~MidRemove
    /\ Len(issued) = 2
    /\ issued[1][2] = issued[2][2]
    /\ issued[1][4] = issued[2][4]
    /\ Cardinality(DOMAIN sessions) = 1
    /\ get_portal_user_sessions(issued[1][2]) = DOMAIN sessions

-----------------------------------------------------------------------------
(* Properties of a session's registry record while its bridge is in use *)

(* the step is a hit of get_session on id: a status poll, or the lookup of
   an upgrade *)
LookupHit(id) ==
    \/ resp' # resp /\ resp'.op = "status" /\ resp'.session_id = id
    \/ lock = "free" /\ lock' = "ws" /\ pending'.arg = id

(* the records of the step's sessions are stamped by add_session and by
   lookup hits only *)
StampedByAddAndLookup ==
    \A id \in DOMAIN sessions' :
        IF id \in DOMAIN sessions
        THEN sessions'[id].last_activity # sessions[id].last_activity =>
                 (sessions'[id].last_activity = now /\ LookupHit(id))
        ELSE resp'.op = "connect" /\ sessions'[id].last_activity = now

(* the step carries a frame of the client or a chunk of SSH output *)
TrafficStep ==
    \/ recvd' # recvd
    \/ ssh_input' # ssh_input
    \/ resize' # resize
    \/ resized' # resized
    \/ written' # written
    \/ read_log' # read_log
    \/ ssh_output' # ssh_output
    \/ ws_msg' # ws_msg
    \/ sent' # sent

(* cleanup_stale_sessions has gone through its list: every session that was
   idle for more than max_idle_time at the call is out of the registry *)
StaleRemoved ==
    (lock = "reaper" /\ pending.todo = <<>>) =>
        \A id \in DOMAIN pending.before[2] :
            DurationSince(pending.before[1],
                          pending.before[2][id].last_activity) > pending.arg[1]
                => id \notin DOMAIN sessions

(* C36: last_activity is written by add_session and by hits of get_session
   only; no step that carries input, output, resize or ping traffic of a
   bridge changes a session's record; and cleanup_stale_sessions removes
   every session idle for more than max_idle_time since its last lookup,
   also one whose bridge is carrying traffic *)
C36_TrafficDoesNotStamp ==
    /\ [][StampedByAddAndLookup]_vars
    /\ [][TrafficStep => sessions' = sessions]_vars
    /\ []StaleRemoved

(* the reaper has removed the session of a bridge that has carried input
   and output since the upgrade and whose loop is still running *)
C36_Witness ==
    /\ lock = "reaper"
    /\ pending.todo = <<>>
    /\ pending.count = 1
    /\ bridges # <<>>
    /\ bridges[1].state = "bridging"
    /\ bridges[1].session_id \notin DOMAIN sessions
    /\ IoAlive
    /\ written # <<>>
    /\ sent # <<>>

-----------------------------------------------------------------------------
(* Properties of the bridges of one session *)

(* the first upgrade has cloned the session and released the registry, its
   handle_socket has not yet spawned start_io, and a terminate request or
   the reaper has just taken the session out of the registry *)
RemovedBeforeStart ==
    /\ bridges # <<>>
    /\ b_pc = "idle"
    /\ lock \in {"terminate", "reaper"}
    /\ bridges[1].session_id \notin DOMAIN sessions

(* start_io of the first upgrade has done nothing on the SSH channel and has
   queued no output *)
NoChannelUse ==
    /\ io \in {"idle", "check", "done"}
    /\ resized = <<>>
    /\ read_log = <<>>
    /\ written = <<>>
    /\ ssh_output = <<>>
    /\ sent = <<>>

(* the cleanup of a bridge of the first upgrade's session found no session *)
CleanupFoundNothing ==
    (resp.op = "bridge" /\ resp.session_id = bridges[1].session_id)
        => ~resp.removed

(* the pass of start_io's loop that finds the flag set leaves the loop *)
FlagExitsAtHead ==
    (io = "check" /\ flags[CloneCell] /\ io' # io) =>
        (io' = "done" /\ resized' = resized /\ read_log' = read_log
           /\ written' = written /\ ssh_output' = ssh_output)

(* C38: when the session is removed after the upgrade's clone and before
   start_io runs, start_io leaves at its loop head: from then on it has
   resized, read, written and queued nothing, and the remove_session of
   handle_socket's cleanup returns false *)
C38_RemovedBeforeStartExits ==
    /\ [](RemovedBeforeStart => [](NoChannelUse /\ CleanupFoundNothing))
    /\ [][RemovedBeforeStart' => FlagExitsAtHead]_vars

(* the session was terminated, start_io has returned without a read, the
   client has left and the cleanup's remove_session has returned false *)
C38_Witness ==
    /\ resp.op = "bridge"
    /\ ~resp.removed
    /\ Len(bridges) = 1
    /\ bridges[1].state = "done"
    /\ terminated # {}
    /\ io = "done"
    /\ NoChannelUse

(* an upgrade leaves the session in the registry, is refused only for an id
   the registry does not hold, and a bridge cleanup whose remove_session
   returned true has set the flag the clones share *)
UpgradeKeepsSession ==
    /\ (resp.op = "ws" /\ resp.status = 101) =>
           resp.session_id \in DOMAIN sessions
    /\ (resp.op = "ws" /\ resp.status = 404) =>
           resp.session_id \notin DOMAIN sessions
    /\ (resp.op = "bridge" /\ resp.removed
          /\ resp.session_id = bridges[1].session_id) =>
           (flags[CloneCell] /\ shutdown_flag[bridges[1].shutdown_flag])

(* of the remove_session calls for one session at most one returns true,
   and a call that returns false leaves the registry as it is *)
OneCleanupRemoves ==
    /\ \A n \in 1..Len(removeRets) :
          Cardinality({i \in 1..Len(removeRets[n]) : removeRets[n][i]}) <= 1
    /\ [][(lock = "bridge" /\ pending'.ret = FALSE /\ pending.todo # <<>>
             /\ pending'.todo = <<>> /\ pending.cur = <<>>)
            => regVars' = regVars]_vars

(* C37: an upgrade does not remove the session and a second upgrade of the
   same id gets its own bridge; the remove_session of the bridge that ends
   first sets the shared flag; and once the flag is set and the program can
   take no step by itself, the other bridge's start_io has returned *)
C37_SharedFlagEndsOtherLoop ==
    /\ [](close_count > 0 => ShutdownSet)
    /\ []((close_count > 0 /\ b_pc = "running" /\ ~ENABLED Unaided)
             => io = "done")

(* the other bridge's cleanup has closed the session while this bridge's
   client was not reading, start_io was not inside a send, and it has left
   its loop *)
C37_Witness ==
    /\ close_count = 1
    /\ io = "done"
    /\ b_pc = "running"
    /\ client = "stalled"
    /\ read_log # <<>>
    /\ Len(ssh_output) < OutputCapacity

-----------------------------------------------------------------------------
(* Properties of the resize acknowledgment *)

(* the step queues an info frame for the client *)
AckQueued == Len(FramesOf("info", Outbound')) > Len(FramesOf("info", Outbound))

(* the step puts a clamped resize command on the resize queue *)
ResizeQueued ==
    \E f \in ResizeFrames :
        resize' = Append(resize, <<Max(f.rows, MinRows), Max(f.cols, MinCols)>>)

(* C39: a step queues the info frame of a resize command exactly when it    *)
(* puts the clamped command on the resize queue; the frames queued are      *)
(* those of the accepted commands whatever resize_pty does with them; and   *)
(* the pass of start_io that drains the queue goes on to its read when a    *)
(* resize_pty has failed.                                                   *)
C39_AckIffQueued ==
    /\ [][AckQueued <=> ResizeQueued]_vars
    /\ [](Len(FramesOf("info", Outbound)) = Len(AcceptedResizes))
    /\ [][resized' # resized => io' = "read"]_vars

(* the acknowledgment of a resize command has reached the client, its
   resize_pty has failed, and start_io is still in its loop *)
C39_Witness ==
    /\ Len(resized) = 1
    /\ resized[1].ret = "Err"
    /\ Len(FramesOf("info", sent)) = 1
    /\ resize = <<>>
    /\ IoAlive

=============================================================================
